---------------------------- MODULE Spec2Model ----------------------------
(***************************************************************************)
(* A model of src/src/cxx_tools/file_io/file_parse.cpp: the lexer, the     *)
(* region / variable-section / definition parsers over the lexed token     *)
(* vector, and the resolver that flattens the trial hierarchy into the     *)
(* trials_data table.                                                      *)
(*                                                                         *)
(* Strings are TLA+ strings; where the code looks inside a string          *)
(* (std::regex_match, std::stoi, std::stof) the model reads its spelling,  *)
(* a sequence of one-character strings.  Vectors and calloc'ed arrays are  *)
(* sequences (index i of the code is index i+1 here).  ct_uint32_t values  *)
(* are naturals; the model's inputs keep every count far below 2^32, so    *)
(* no wrap-around is reached.                                              *)
(***************************************************************************)
EXTENDS Integers, Sequences, FiniteSets, TLC

VARIABLES
    l_file,     \* lexed_file.tokens: the vector of lexed_token
    ltp,        \* the parser's iterator, as a 1-based index into l_file
    stack,      \* the parser's call stack: one frame per active call
    e_file,     \* parsed_expt_file / parsed_build_file under construction
    td,         \* trials_data filled by translate_parsed_trials
    pc,         \* where the program is
    doc,        \* the input: which parser is called, and the file it is given
    t_file,     \* tokenized_file.tokens: one vector of raw tokens per line
    ub          \* the undefined behaviour met so far, "" when none

vars == <<l_file, ltp, stack, e_file, td, pc, doc, t_file, ub>>

-----------------------------------------------------------------------------
(* Bounds of the model.                                                    *)

\* the largest repetition count drawn for a pair of the experiment list
MaxCount == 3
\* the longest experiment pair list drawn
MaxPairs == 2

-----------------------------------------------------------------------------
(* Strings and their spellings.                                            *)

Digits == <<"0", "1", "2", "3", "4", "5", "6", "7", "8", "9">>

DigitChars == {Digits[i] : i \in 1..10}

DigitVal(c) == CHOOSE d \in 0..9 : Digits[d + 1] = c

\* the decimal numeral of a small natural, as a string
CountStr(n) == Digits[n + 1]

Spelling ==
    [s \in {""} |-> <<>>]
    @@ [s \in DigitChars |-> <<s>>]
    @@ ("100" :> <<"1", "0", "0">>)
    @@ ("40" :> <<"4", "0">>)
    @@ ("0.5" :> <<"0", ".", "5">>)
    @@ ("2.7" :> <<"2", ".", "7">>)
    @@ ("+" :> <<"+">>)
    @@ ("-1" :> <<"-", "1">>)
    @@ ("t1" :> <<"t", "1">>)
    @@ ("t2" :> <<"t", "2">>)
    @@ ("b1" :> <<"b", "1">>)
    @@ ("s1" :> <<"s", "1">>)
    @@ ("e1" :> <<"e", "1">>)
    @@ ("x" :> <<"x">>)
    @@ ("c" :> <<"c">>)
    @@ ("rate" :> <<"r", "a", "t", "e">>)
    @@ ("use_cs" :> <<"u", "s", "e", "_", "c", "s">>)
    @@ ("use_pfpc_plast" :> <<"u", "s", "e", "_", "p", "f", "p", "c", "_", "p", "l", "a", "s", "t">>)
    @@ ("use_mfnc_plast" :> <<"u", "s", "e", "_", "m", "f", "n", "c", "_", "p", "l", "a", "s", "t">>)
    @@ ("cs_onset" :> <<"c", "s", "_", "o", "n", "s", "e", "t">>)
    @@ ("cs_len" :> <<"c", "s", "_", "l", "e", "n">>)
    @@ ("cs_percent" :> <<"c", "s", "_", "p", "e", "r", "c", "e", "n", "t">>)
    @@ ("use_us" :> <<"u", "s", "e", "_", "u", "s">>)
    @@ ("us_onset" :> <<"u", "s", "_", "o", "n", "s", "e", "t">>)
    @@ ("@" :> <<"@">>)
    @@ ("1e5" :> <<"1", "e", "5">>)
    @@ ("[a-zA-Z_]{1}[a-zA-Z0-9_]*" :>
            <<"[", "a", "-", "z", "A", "-", "Z", "_", "]", "{", "1", "}",
              "[", "a", "-", "z", "A", "-", "Z", "0", "-", "9", "_", "]", "*">>)
    @@ ("[+-]?([0-9]*[.])?[0-9]*([e][+-]?[0-9]+)?" :>
            <<"[", "+", "-", "]", "?", "(", "[", "0", "-", "9", "]", "*",
              "[", ".", "]", ")", "?", "[", "0", "-", "9", "]", "*", "(",
              "[", "e", "]", "[", "+", "-", "]", "?", "[", "0", "-", "9",
              "]", "+", ")", "?">>)

\* the number of leading decimal digits of cs from position i on
RECURSIVE DigitRun(_, _)
DigitRun(cs, i) ==
    IF i <= Len(cs) /\ cs[i] \in DigitChars THEN 1 + DigitRun(cs, i + 1) ELSE 0

\* the value of the decimal digits cs[i .. i+n-1]
RECURSIVE DigitsValue(_, _, _)
DigitsValue(cs, i, n) ==
    IF n = 0 THEN 0
    ELSE 10 * DigitsValue(cs, i, n - 1) + DigitVal(cs[i + n - 1])

\* a mutant: no digits read as 0, as atoi does
stoi_like_atoi(s) ==
    LET cs    == Spelling[s]
        sgn   == IF Len(cs) >= 1 /\ cs[1] \in {"+", "-"} THEN 1 ELSE 0
        n     == DigitRun(cs, sgn + 1)
        v     == DigitsValue(cs, sgn + 1, n)
    IN  [exc |-> "", val |-> IF sgn = 1 /\ cs[1] = "-" THEN 0 - v ELSE v]

\* std::stoi: an optional sign, then the longest run of digits; the rest of
\* the string is ignored; no digit at all throws std::invalid_argument
stoi(s) ==
    LET cs    == Spelling[s]
        sgn   == IF Len(cs) >= 1 /\ cs[1] \in {"+", "-"} THEN 1 ELSE 0
        n     == DigitRun(cs, sgn + 1)
        v     == DigitsValue(cs, sgn + 1, n)
    IN  IF n = 0 THEN [exc |-> "invalid_argument", val |-> 0]
        ELSE [exc |-> "",
              val |-> IF sgn = 1 /\ cs[1] = "-" THEN 0 - v ELSE v]

\* std::stof: sign, digits, an optional point and more digits.  The value is
\* kept exact, as num / 10^frac; no mantissa at all throws
stof(s) ==
    LET cs    == Spelling[s]
        sgn   == IF Len(cs) >= 1 /\ cs[1] \in {"+", "-"} THEN 1 ELSE 0
        n     == DigitRun(cs, sgn + 1)
        dot   == IF sgn + n + 1 <= Len(cs) /\ cs[sgn + n + 1] = "." THEN 1 ELSE 0
        m     == IF dot = 1 THEN DigitRun(cs, sgn + n + 2) ELSE 0
        whole == DigitsValue(cs, sgn + 1, n)
        fracv == DigitsValue(cs, sgn + n + 2, m)
        scale == [k \in 0..3 |-> IF k = 0 THEN 1 ELSE IF k = 1 THEN 10
                                 ELSE IF k = 2 THEN 100 ELSE 1000]
        mag   == whole * scale[m] + fracv
    IN  IF n + m = 0 THEN [exc |-> "invalid_argument", val |-> <<0, 0>>]
        ELSE [exc |-> "",
              val |-> <<IF sgn = 1 /\ cs[1] = "-" THEN 0 - mag ELSE mag, m>>]


-----------------------------------------------------------------------------
(* The resolver: calculate_num_trials, allocate_trials_data,               *)
(* initialize_trial_names_helper, initialize_trials_data.                  *)

\* a value-initialised `variable` and an empty std::unordered_map
EmptyVariable == [type_name |-> "", identifier |-> "", value |-> ""]

EmptyMap == <<>>

NoExc(v) == [exc |-> "", val |-> v]

\* the eight fields initialize_trials_data reads, with the array each fills,
\* in the order of its assignments
FieldNames ==
    <<"use_cs", "use_pfpc_plast", "use_mfnc_plast", "cs_onset",
      "cs_len", "cs_percent", "use_us", "us_onset">>

\* a mutant: cs_onset and cs_len stored in each other's array
ArrayNames_swapped ==
    <<"use_css", "use_pfpc_plasts", "use_mfnc_plasts", "cs_lens",
      "cs_onsets", "cs_percents", "use_uss", "us_onsets">>

ArrayNames ==
    <<"use_css", "use_pfpc_plasts", "use_mfnc_plasts", "cs_onsets",
      "cs_lens", "cs_percents", "use_uss", "us_onsets">>

\* the conversion initialize_trials_data applies to the k-th field
Convert(k, s) == IF FieldNames[k] = "cs_percent" THEN stof(s) ELSE stoi(s)

RECURSIVE calculate_num_trials_helper(_, _, _)
RECURSIVE calculate_num_trials_loop(_, _, _, _)

\* the range-for of calculate_num_trials_helper from pair k on
calculate_num_trials_loop(pt_section, in_vec, k, temp_sum) ==
    IF k > Len(in_vec) THEN NoExc(temp_sum)
    ELSE
        LET vec_pair   == in_vec[k]
            temp_count == stoi(vec_pair.second)
            counted ==
                IF vec_pair.first \in DOMAIN pt_section.session_map
                THEN calculate_num_trials_helper(pt_section,
                         pt_section.session_map[vec_pair.first], temp_count.val)
                ELSE IF vec_pair.first \in DOMAIN pt_section.block_map
                THEN calculate_num_trials_helper(pt_section,
                         pt_section.block_map[vec_pair.first], temp_count.val)
                ELSE temp_count
        IN  IF temp_count.exc # "" THEN temp_count
            ELSE IF counted.exc # "" THEN counted
            ELSE calculate_num_trials_loop(pt_section, in_vec, k + 1,
                                           temp_sum + counted.val)

\* a mutant: the sum of a nested list added to the running count
calculate_num_trials_helper_added(pt_section, in_vec, temp_num_trials) ==
    LET temp_sum == calculate_num_trials_loop(pt_section, in_vec, 1, 0)
    IN  IF temp_sum.exc # "" THEN temp_sum
        ELSE NoExc(temp_num_trials + temp_sum.val)

\* temp_num_trials is passed by reference: the result is its new value
calculate_num_trials_helper(pt_section, in_vec, temp_num_trials) ==
    LET temp_sum == calculate_num_trials_loop(pt_section, in_vec, 1, 0)
    IN  IF temp_sum.exc # "" THEN temp_sum
        ELSE NoExc(temp_num_trials * temp_sum.val)

calculate_num_trials(pt_section) ==
    calculate_num_trials_helper(pt_section, pt_section.experiment, 1)

\* calloc: every array zero-filled; a zero-filled std::string reads as ""
allocate_trials_data(num_trials) ==
    [num_trials      |-> num_trials,
     trial_names     |-> [j \in 1..num_trials |-> ""],
     use_pfpc_plasts |-> [j \in 1..num_trials |-> 0],
     use_mfnc_plasts |-> [j \in 1..num_trials |-> 0],
     use_css         |-> [j \in 1..num_trials |-> 0],
     cs_onsets       |-> [j \in 1..num_trials |-> 0],
     cs_lens         |-> [j \in 1..num_trials |-> 0],
     cs_percents     |-> [j \in 1..num_trials |-> <<0, 0>>],
     use_uss         |-> [j \in 1..num_trials |-> 0],
     us_onsets       |-> [j \in 1..num_trials |-> 0]]

\* std::find(td.trial_names, td.trial_names + td.num_trials, ""):
\* the first empty slot, or Len + 1 for the end pointer
FirstEmpty(names) ==
    IF \E j \in 1..Len(names) : names[j] = ""
    THEN CHOOSE j \in 1..Len(names) :
             names[j] = "" /\ \A h \in 1..(j - 1) : names[h] # ""
    ELSE Len(names) + 1

\* ct_uint32_t v = std::stoi(...): a negative int converts to 2^32 + v.  The
\* integers of the model are 32 bits wide and signed: a ct_uint32_t of 2^31 or
\* more is kept as the negative integer congruent to it modulo 2^32, which
\* sums and products preserve.  Where the code counts up to it, such a value
\* is more than any array here holds: AtMost keeps it as limit
AtMost(count, limit) == IF count < 0 \/ count > limit THEN limit ELSE count

\* a mutant: one copy too many
WriteCopies_one_more(st, label, first_empty, this_num_trials) ==
    [st EXCEPT
       !.names = [j \in 1..Len(st.names) |->
                     IF first_empty <= j /\ j <= first_empty + this_num_trials
                     THEN label ELSE st.names[j]],
       !.oob = st.oob \/ first_empty + this_num_trials > Len(st.names)]

\* the while loop writing this_num_trials copies from first_empty on.  Nothing
\* checks the end of the array: a write past it is a heap overflow (oob)
WriteCopies(st, label, first_empty, this_num_trials) ==
    LET copies == AtMost(this_num_trials, Len(st.names) + 1)
    IN  [st EXCEPT
           !.names = [j \in 1..Len(st.names) |->
                         IF first_empty <= j /\ j < first_empty + copies
                         THEN label ELSE st.names[j]],
           !.oob = st.oob \/ first_empty + copies - 1 > Len(st.names)]

RECURSIVE initialize_trial_names_helper(_, _, _)
RECURSIVE initialize_trial_names_loop(_, _, _, _)
RECURSIVE initialize_trial_names_repeat(_, _, _, _)

\* the for (i = 0; i < std::stoi(vec_pair.second); i++) of the else branch.
\* i is a ct_uint32_t, so the bound is compared as one.  Every iteration
\* either fills an empty slot, or writes past the end for the first time, or
\* changes nothing any more: Len + 2 iterations end as 2^31 or more do
initialize_trial_names_repeat(st, pt_section, vec_pair, i) ==
    LET bound == stoi(vec_pair.second)
    IN  IF st.exc # "" THEN st
        ELSE IF bound.exc # "" THEN [st EXCEPT !.exc = bound.exc]
        ELSE IF ~(i < AtMost(bound.val, Len(st.names) + 2)) THEN st
        ELSE
            LET after ==
                    IF vec_pair.first \in DOMAIN pt_section.block_map
                    THEN initialize_trial_names_helper(st, pt_section,
                             pt_section.block_map[vec_pair.first])
                    ELSE IF vec_pair.first \in DOMAIN pt_section.session_map
                    THEN initialize_trial_names_helper(st, pt_section,
                             pt_section.session_map[vec_pair.first])
                    ELSE st
            IN  initialize_trial_names_repeat(after, pt_section, vec_pair, i + 1)

\* the range-for of initialize_trial_names_helper from pair k on
initialize_trial_names_loop(st, pt_section, in_vec, k) ==
    IF st.exc # "" \/ k > Len(in_vec) THEN st
    ELSE
        LET vec_pair == in_vec[k]
            first_empty == FirstEmpty(st.names)
            this_num_trials == stoi(vec_pair.second)
            after ==
                IF vec_pair.first \in DOMAIN pt_section.trial_map
                THEN IF first_empty = Len(st.names) + 1 THEN st
                     ELSE IF this_num_trials.exc # ""
                     THEN [st EXCEPT !.exc = this_num_trials.exc]
                     ELSE WriteCopies(st, vec_pair.first, first_empty,
                                      this_num_trials.val)
                ELSE initialize_trial_names_repeat(st, pt_section, vec_pair, 0)
        IN  initialize_trial_names_loop(after, pt_section, in_vec, k + 1)

\* st = [names, oob, exc]: the name array, whether a write went past its end,
\* and the exception thrown, if any
initialize_trial_names_helper(st, pt_section, in_vec) ==
    initialize_trial_names_loop(st, pt_section, in_vec, 1)

\* std::unordered_map::operator[]: a missing key is inserted with a
\* value-initialised mapped value
Subscript(m, key, default) ==
    IF key \in DOMAIN m THEN m ELSE m @@ (key :> default)

RECURSIVE initialize_trials_data_fields(_, _, _)

\* one iteration of the for loop of initialize_trials_data: the assignments
\* for index j from the k-th on.  st = [trial_map, td, exc]
initialize_trials_data_fields(st, j, k) ==
    IF st.exc # "" \/ k > Len(FieldNames) THEN st
    ELSE
        LET name   == st.td.trial_names[j]
            tm1    == Subscript(st.trial_map, name, EmptyMap)
            trial  == Subscript(tm1[name], FieldNames[k], EmptyVariable)
            tm2    == [tm1 EXCEPT ![name] = trial]
            parsed == Convert(k, trial[FieldNames[k]].value)
            after ==
                IF parsed.exc # ""
                THEN [st EXCEPT !.trial_map = tm2, !.exc = parsed.exc]
                ELSE [st EXCEPT !.trial_map = tm2,
                                !.td[ArrayNames[k]][j] = parsed.val]
        IN  initialize_trials_data_fields(after, j, k + 1)

RECURSIVE initialize_trials_data_loop(_, _, _)

\* the iterations first..last of the for loop of initialize_trials_data, in
\* order: the first half of them, then the second half
initialize_trials_data_loop(st, first, last) ==
    IF st.exc # "" \/ first > last THEN st
    ELSE IF first = last THEN initialize_trials_data_fields(st, first, 1)
    ELSE LET middle == (first + last) \div 2
         IN  initialize_trials_data_loop(
                 initialize_trials_data_loop(st, first, middle), middle + 1, last)


-----------------------------------------------------------------------------
(* translate_parsed_trials, one action per call it makes.                  *)

TrialInfo == e_file.parsed_trial_info

\* td.num_trials = calculate_num_trials(pe_file.parsed_trial_info)
CalculateNumTrials ==
    /\ pc = "parsed"
    /\ doc.parser = "expt"
    /\ LET r == calculate_num_trials(TrialInfo)
       IN  IF r.exc # ""
           THEN pc' = "threw" /\ td' = td
           ELSE pc' = "allocate_trials_data"
                /\ td' = [td EXCEPT !.num_trials = r.val]
    /\ UNCHANGED <<l_file, ltp, stack, e_file, doc, t_file, ub>>

\* a num_trials of 2^31 or more (kept negative, see AtMost) asks calloc for
\* arrays the model cannot hold: the run is not followed further
AllocateTrialsData ==
    /\ pc = "allocate_trials_data"
    /\ IF td.num_trials < 0
       THEN td' = td /\ pc' = "huge_allocation"
       ELSE td' = allocate_trials_data(td.num_trials)
            /\ pc' = "initialize_trial_names"
    /\ UNCHANGED <<l_file, ltp, stack, e_file, doc, t_file, ub>>

\* initialize_trial_names_helper(td, pt_section, pt_section.experiment).  A
\* write past the end of trial_names is undefined behaviour: the process may
\* die there, or go on with only the writes inside the array kept
InitializeTrialNames ==
    /\ pc = "initialize_trial_names"
    /\ LET st == initialize_trial_names_helper(
                     [names |-> td.trial_names, oob |-> FALSE, exc |-> ""],
                     TrialInfo, TrialInfo.experiment)
       IN  /\ td' = [td EXCEPT !.trial_names = st.names]
           /\ IF st.exc # "" THEN pc' = "threw" /\ ub' = ub
              ELSE IF st.oob
              THEN ub' = "heap_overflow"
                   /\ pc' \in {"crashed", "initialize_trials_data"}
              ELSE pc' = "initialize_trials_data" /\ ub' = ub
    /\ UNCHANGED <<l_file, ltp, stack, e_file, doc, t_file>>

\* the for loop of initialize_trials_data; an exception of std::stoi or
\* std::stof leaves translate_parsed_trials uncaught
InitializeTrialsData ==
    /\ pc = "initialize_trials_data"
    /\ LET st == initialize_trials_data_loop(
                     [trial_map |-> TrialInfo.trial_map, td |-> td, exc |-> ""],
                     1, td.num_trials)
       IN  /\ td' = st.td
           /\ e_file' = [e_file EXCEPT !.parsed_trial_info.trial_map = st.trial_map]
           /\ pc' = IF st.exc # "" THEN "threw" ELSE "returned"
    /\ UNCHANGED <<l_file, ltp, stack, doc, t_file, ub>>

Translate ==
    \/ CalculateNumTrials
    \/ AllocateTrialsData
    \/ InitializeTrialNames
    \/ InitializeTrialsData

-----------------------------------------------------------------------------
(* Inputs of the resolver: parsed hierarchies.                             *)

Var(t, id, v) == [type_name |-> t, identifier |-> id, value |-> v]

Pair(label, count) == [first |-> label, second |-> count]

\* a trial definition giving the eight fields the values vals[1..8]
Trial(vals) ==
    [f \in {FieldNames[k] : k \in 1..8} |->
        LET k == CHOOSE h \in 1..8 : FieldNames[h] = f
        IN  Var(IF f = "cs_percent" THEN "float" ELSE "int", f, vals[k])]

Trial1 == Trial(<<"1", "2", "3", "100", "40", "0.5", "4", "5">>)

Trial2 == Trial(<<"0", "1", "0", "7", "8", "1", "9", "6">>)

\* Trial2 without its cs_len field
Trial2NoLen == [f \in (DOMAIN Trial2) \ {"cs_len"} |-> Trial2[f]]

\* Trial2 with values std::stoi truncates
Trial2Frac == [Trial2 EXCEPT !["cs_onset"].value = "2.7"]

\* the definitions below the experiment list: trial_map, block_map, session_map
LowerMaps ==
    { \* every label defined once
      [trial_map   |-> ("t1" :> Trial1) @@ ("t2" :> Trial2),
       block_map   |-> ("b1" :> <<Pair("t1", "2"), Pair("t2", "1")>>),
       session_map |-> ("s1" :> <<Pair("b1", "2"), Pair("t1", "1")>>)],
      \* a block of four repetitions of one trial
      [trial_map   |-> ("t1" :> Trial1) @@ ("t2" :> Trial2Frac),
       block_map   |-> ("b1" :> <<Pair("t2", "4")>>),
       session_map |-> ("s1" :> <<Pair("t1", "0"), Pair("b1", "1")>>)],
      \* a trial without one of its fields
      [trial_map   |-> ("t1" :> Trial1) @@ ("t2" :> Trial2NoLen),
       block_map   |-> ("b1" :> <<Pair("t2", "1")>>),
       session_map |-> ("s1" :> <<Pair("b1", "1")>>)],
      \* a block that names an undefined label
      [trial_map   |-> ("t1" :> Trial1) @@ ("t2" :> Trial2),
       block_map   |-> ("b1" :> <<Pair("t1", "1"), Pair("x", "1")>>),
       session_map |-> ("s1" :> <<Pair("b1", "2")>>)],
      \* b1 defined as a trial and as a block
      [trial_map   |-> ("t1" :> Trial1) @@ ("b1" :> Trial2),
       block_map   |-> ("b1" :> <<>>),
       session_map |-> ("s1" :> <<Pair("t1", "1")>>)],
      \* s1 defined as a block and as a session
      [trial_map   |-> ("t1" :> Trial1) @@ ("t2" :> Trial2),
       block_map   |-> ("b1" :> <<Pair("t1", "1")>>) @@ ("s1" :> <<Pair("t2", "2")>>),
       session_map |-> ("s1" :> <<Pair("b1", "1")>>)] }

ExptLabels == {"t1", "b1", "s1", "x"}

ExptPairs == {Pair(l, CountStr(c)) : l \in ExptLabels, c \in 0..MaxCount}

PairLists == UNION {[1..n -> ExptPairs] : n \in 0..MaxPairs}

Hierarchies ==
    {[trial_map |-> m.trial_map, block_map |-> m.block_map,
      session_map |-> m.session_map, experiment |-> e] :
        m \in LowerMaps, e \in PairLists}

InitResolve ==
    /\ doc \in {[parser |-> "expt", family |-> "resolve", file |-> <<>>,
                 opens |-> TRUE,
                 pe_file |-> [parsed_var_sections |-> EmptyMap,
                              parsed_trial_info |-> h]] : h \in Hierarchies}
    /\ e_file = doc.pe_file
    /\ l_file = <<>>
    /\ ltp = 1
    /\ stack = <<>>
    /\ td = allocate_trials_data(0)
    /\ pc = "parsed"
    /\ t_file = <<>>
    /\ ub = ""

NextResolve == Translate

\* translate_parsed_trials run on every hierarchy of Hierarchies
SpecResolve == InitResolve /\ [][NextResolve]_vars

\* the counts the value pattern of the lexer lets through with a sign
SignedCounts == {"-1", "0", "1", "2"}

SignedPairs == {Pair(l, n) : l \in {"t1", "t2", "b1"}, n \in SignedCounts}

\* hierarchies whose every label is defined once, with signed counts in the
\* experiment list
SignedHierarchies ==
    {[trial_map   |-> ("t1" :> Trial1) @@ ("t2" :> Trial2),
      block_map   |-> ("b1" :> <<Pair("t1", "2"), Pair("t2", "1")>>),
      session_map |-> ("s1" :> <<Pair("b1", "2"), Pair("t1", "1")>>),
      experiment  |-> e] :
        e \in UNION {[1..n -> SignedPairs] : n \in 0..MaxPairs}}

InitSigned ==
    /\ doc \in {[parser |-> "expt", family |-> "signed", file |-> <<>>,
                 opens |-> TRUE,
                 pe_file |-> [parsed_var_sections |-> EmptyMap,
                              parsed_trial_info |-> h]] : h \in SignedHierarchies}
    /\ e_file = doc.pe_file
    /\ l_file = <<>>
    /\ ltp = 1
    /\ stack = <<>>
    /\ td = allocate_trials_data(0)
    /\ pc = "parsed"
    /\ t_file = <<>>
    /\ ub = ""

\* translate_parsed_trials run on every hierarchy of SignedHierarchies
SpecSigned == InitSigned /\ [][NextResolve]_vars


-----------------------------------------------------------------------------
(* Properties of the resolver.                                             *)

\* the pair lists of a hierarchy and the labels they name
PairListsOf(pt) ==
    {pt.experiment}
    \cup {pt.block_map[b] : b \in DOMAIN pt.block_map}
    \cup {pt.session_map[x] : x \in DOMAIN pt.session_map}

Referenced(pt) == UNION {{l[k].first : k \in 1..Len(l)} : l \in PairListsOf(pt)}

\* in how many of trial_map, block_map, session_map the label is defined
TimesDefined(pt, label) ==
    (IF label \in DOMAIN pt.trial_map THEN 1 ELSE 0)
    + (IF label \in DOMAIN pt.block_map THEN 1 ELSE 0)
    + (IF label \in DOMAIN pt.session_map THEN 1 ELSE 0)

\* every label a pair names resolves to exactly one definition
WellResolved(pt) == \A label \in Referenced(pt) : TimesDefined(pt, label) = 1

HasUnresolved(pt) == \E label \in Referenced(pt) : TimesDefined(pt, label) = 0

RECURSIVE TrialsOfLabel(_, _)
RECURSIVE TrialsOfList(_, _, _)

\* T(label): 1 for a trial, the sum of the referenced pair list otherwise
TrialsOfLabel(pt, label) ==
    IF label \in DOMAIN pt.trial_map THEN 1
    ELSE IF label \in DOMAIN pt.block_map
    THEN TrialsOfList(pt, pt.block_map[label], Len(pt.block_map[label]))
    ELSE TrialsOfList(pt, pt.session_map[label], Len(pt.session_map[label]))

\* the sum over the first n pairs of list of count x T(label)
TrialsOfList(pt, list, n) ==
    IF n = 0 THEN 0
    ELSE TrialsOfList(pt, list, n - 1)
         + stoi(list[n].second).val * TrialsOfLabel(pt, list[n].first)

\* C1: calculate_num_trials is additive across siblings and multiplicative
\* across nesting: on a hierarchy whose labels each resolve to one definition
\* the count it returns is the sum over the experiment's pairs of
\* count x T(label), T(label) being 1 for a trial and the same sum over the
\* referenced block's or session's pair list otherwise.
C1_NumTrialsIsNestedSum ==
    (pc = "allocate_trials_data" /\ WellResolved(TrialInfo))
        => td.num_trials
             = TrialsOfList(TrialInfo, TrialInfo.experiment, Len(TrialInfo.experiment))

\* the example of the claim: experiment = [(A,2),(B,3)], A a trial, block
\* B = [(C,4)], C a trial, counted as 14
C1_Witness ==
    /\ pc = "allocate_trials_data"
    /\ TrialInfo.experiment = <<Pair("t1", "2"), Pair("b1", "3")>>
    /\ TrialInfo.block_map["b1"] = <<Pair("t2", "4")>>
    /\ {"t1", "t2"} \subseteq DOMAIN TrialInfo.trial_map
    /\ td.num_trials = 14


\* n copies of seq in a row
RECURSIVE Copies(_, _)
Copies(seq, n) == IF n = 0 THEN <<>> ELSE Copies(seq, n - 1) \o seq

RECURSIVE ExpandLabel(_, _)
RECURSIVE ExpandList(_, _, _)

ExpandLabel(pt, label) ==
    IF label \in DOMAIN pt.trial_map THEN <<label>>
    ELSE IF label \in DOMAIN pt.block_map
    THEN ExpandList(pt, pt.block_map[label], Len(pt.block_map[label]))
    ELSE ExpandList(pt, pt.session_map[label], Len(pt.session_map[label]))

\* the first n pairs of list visited in order, each emitting count times what
\* its label expands to
ExpandList(pt, list, n) ==
    IF n = 0 THEN <<>>
    ELSE ExpandList(pt, list, n - 1)
         \o Copies(ExpandLabel(pt, list[n].first), stoi(list[n].second).val)

\* C2: name expansion is a depth-first walk in declaration order: on a
\* hierarchy whose labels all resolve, the trial name array is the sequence
\* built by visiting the experiment's pairs in order, a trial emitting count
\* copies of its label, a block or session emitting count times in a row the
\* expansion of its pair list.
C2_NamesAreDepthFirstExpansion ==
    (pc = "initialize_trials_data" /\ WellResolved(TrialInfo))
        => td.trial_names
             = ExpandList(TrialInfo, TrialInfo.experiment, Len(TrialInfo.experiment))

\* a session repeated twice, holding a block repeated twice, then a trial
C2_Witness ==
    /\ pc = "initialize_trials_data"
    /\ WellResolved(TrialInfo)
    /\ TrialInfo.experiment = <<Pair("s1", "2"), Pair("t1", "1")>>
    /\ td.trial_names = <<"t1", "t1", "t2", "t1", "t1", "t2", "t1",
                          "t1", "t1", "t2", "t1", "t1", "t2", "t1", "t1">>

\* the field of the trial named at index j, read as the code converts it
FieldOf(j, field) == TrialInfo.trial_map[td.trial_names[j]][field].value

\* C3: after translate_parsed_trials returns, each of the eight arrays holds
\* at every index below num_trials the value of its field of
\* trial_map[trial_names[i]] (integers by std::stoi, cs_percent by std::stof).
C3_ArraysHoldTrialFields ==
    pc = "returned" =>
        /\ \A name \in DOMAIN allocate_trials_data(0) \ {"num_trials"} :
               Len(td[name]) = td.num_trials
        /\ \A j \in 1..td.num_trials :
               /\ td.use_css[j]         = stoi(FieldOf(j, "use_cs")).val
               /\ td.use_pfpc_plasts[j] = stoi(FieldOf(j, "use_pfpc_plast")).val
               /\ td.use_mfnc_plasts[j] = stoi(FieldOf(j, "use_mfnc_plast")).val
               /\ td.cs_onsets[j]       = stoi(FieldOf(j, "cs_onset")).val
               /\ td.cs_lens[j]         = stoi(FieldOf(j, "cs_len")).val
               /\ td.cs_percents[j]     = stof(FieldOf(j, "cs_percent")).val
               /\ td.use_uss[j]         = stoi(FieldOf(j, "use_us")).val
               /\ td.us_onsets[j]       = stoi(FieldOf(j, "us_onset")).val

\* a returned table with two different trials in it
C3_Witness ==
    /\ pc = "returned"
    /\ td.num_trials = 3
    /\ td.trial_names = <<"t1", "t1", "t2">>
    /\ td.cs_onsets = <<100, 100, 7>>
    /\ td.cs_percents = <<<<5, 1>>, <<5, 1>>, <<1, 0>>>>

\* the labels the expansion of the experiment list can reach
RECURSIVE Reached(_, _, _)
Reached(pt, labels, depth) ==
    IF depth = 0 THEN labels
    ELSE Reached(pt,
             labels
             \cup UNION {{pt.block_map[l][k].first : k \in 1..Len(pt.block_map[l])} :
                            l \in labels \cap DOMAIN pt.block_map}
             \cup UNION {{pt.session_map[l][k].first : k \in 1..Len(pt.session_map[l])} :
                            l \in labels \cap DOMAIN pt.session_map},
             depth - 1)

ReachedLabels(pt) ==
    Reached(pt, {pt.experiment[k].first : k \in 1..Len(pt.experiment)},
            Cardinality(DOMAIN pt.block_map \cup DOMAIN pt.session_map))

\* C8: a pair naming a label defined in none of trial_map, block_map and
\* session_map is a resolution error: translate_parsed_trials never returns
\* a table for a hierarchy that reaches such a pair.
C8_UnresolvedIsAnError ==
    ~(pc = "returned"
      /\ \E label \in ReachedLabels(TrialInfo) : TimesDefined(TrialInfo, label) = 0)

\* the names of the table that trial_map cannot serve: no entry, or an entry
\* without one of the eight fields
MissingData(names, trial_map) ==
    {j \in 1..Len(names) :
        \/ names[j] \notin DOMAIN trial_map
        \/ \E k \in 1..Len(FieldNames) :
               FieldNames[k] \notin DOMAIN trial_map[names[j]]}

\* C9: missing trial data is fatal: when a name of the expanded array has no
\* entry in trial_map, or its entry lacks one of the eight fields,
\* initialize_trials_data ends in an uncaught exception and
\* translate_parsed_trials hands back no table.
C9_MissingDataIsFatal ==
    [][(pc = "initialize_trials_data"
        /\ MissingData(td.trial_names, TrialInfo.trial_map) # {})
          => pc' = "threw"]_vars

\* a trial without cs_len was reached: operator[] inserted the field, empty,
\* and std::stoi threw on it
C9_Witness ==
    /\ pc = "threw"
    /\ \E j \in 1..td.num_trials :
           /\ td.trial_names[j] = "t2"
           /\ TrialInfo.trial_map["t2"]["cs_len"] = EmptyVariable


-----------------------------------------------------------------------------
(* The lexer.                                                              *)

LetterChars ==
    {"a", "b", "c", "d", "e", "f", "g", "h", "i", "j", "k", "l", "m",
     "n", "o", "p", "q", "r", "s", "t", "u", "v", "w", "x", "y", "z",
     "A", "B", "C", "D", "E", "F", "G", "H", "I", "J", "K", "L", "M",
     "N", "O", "P", "Q", "R", "S", "T", "U", "V", "W", "X", "Y", "Z"}

var_id_regex_str == "[a-zA-Z_]{1}[a-zA-Z0-9_]*"

var_val_regex_str == "[+-]?([0-9]*[.])?[0-9]*([e][+-]?[0-9]+)?"

\* std::regex_match(raw_token, var_id_regex) on the spelling of the token
MatchesVarId(cs) ==
    /\ Len(cs) >= 1
    /\ cs[1] \in LetterChars \cup {"_"}
    /\ \A i \in 2..Len(cs) : cs[i] \in LetterChars \cup DigitChars \cup {"_"}

\* std::regex_match(raw_token, var_val_regex) on the spelling of the token
MatchesVarVal(cs) ==
    LET sgn  == IF Len(cs) >= 1 /\ cs[1] \in {"+", "-"} THEN 1 ELSE 0
        d1   == DigitRun(cs, sgn + 1)
        dot  == sgn + d1 + 1 <= Len(cs) /\ cs[sgn + d1 + 1] = "."
        \* the first position after [+-]?([0-9]*[.])?[0-9]*
        mant == IF dot THEN sgn + d1 + 2 + DigitRun(cs, sgn + d1 + 2)
                ELSE sgn + d1 + 1
        esgn == IF mant + 1 <= Len(cs) /\ cs[mant + 1] \in {"+", "-"} THEN 1 ELSE 0
        ed   == DigitRun(cs, mant + 1 + esgn)
    IN  \/ mant = Len(cs) + 1
        \/ /\ mant <= Len(cs)
           /\ cs[mant] = "e"
           /\ ed >= 1
           /\ mant + esgn + ed = Len(cs)

token_defs ==
    ("begin" :> "BEGIN_MARKER") @@ ("end" :> "END_MARKER")
    @@ ("filetype" :> "REGION") @@ ("section" :> "REGION")
    @@ ("build" :> "REGION_TYPE") @@ ("run" :> "REGION_TYPE")
    @@ ("connectivity" :> "REGION_TYPE") @@ ("activity" :> "REGION_TYPE")
    @@ ("trial_def" :> "REGION_TYPE") @@ ("mf_input" :> "REGION_TYPE")
    @@ ("trial_spec" :> "REGION_TYPE")
    @@ ("int" :> "TYPE_NAME") @@ ("float" :> "TYPE_NAME")
    @@ (var_id_regex_str :> "VAR_IDENTIFIER")
    @@ (var_val_regex_str :> "VAR_VALUE")
    @@ ("def" :> "DEF")
    @@ ("trial" :> "DEF_TYPE") @@ ("block" :> "DEF_TYPE")
    @@ ("session" :> "DEF_TYPE") @@ ("experiment" :> "DEF_TYPE")
    @@ ("//" :> "SINGLE_COMMENT")
    @@ ("/*" :> "DOUBLE_COMMENT_BEGIN") @@ ("*/" :> "DOUBLE_COMMENT_END")

\* the lexeme of a lexed_token that was declared and never assigned: the
\* struct is declared in file_parse.h; the first lexeme of the enumeration
\* is taken, as the specification has it
DefaultLexeme == "NONE"

\* the lexeme lex_tokenized_file gives a raw token.  A token that is no
\* key of token_defs and matches neither pattern keeps the lexeme of a
\* fresh lexed_token
LexemeOf(raw_token) ==
    IF raw_token \in DOMAIN token_defs THEN token_defs[raw_token]
    ELSE IF MatchesVarId(Spelling[raw_token]) THEN token_defs[var_id_regex_str]
    ELSE IF MatchesVarVal(Spelling[raw_token]) THEN token_defs[var_val_regex_str]
    ELSE DefaultLexeme

Token(lexeme, raw) == [lex |-> lexeme, raw_token |-> raw]

NewLineToken == Token("NEW_LINE", "\n")

RECURSIVE Concat(_, _, _)
\* the sequences first..last of a sequence of sequences, concatenated
Concat(seqs, first, last) ==
    IF first > last THEN <<>>
    ELSE IF first = last THEN seqs[first]
    ELSE LET middle == (first + last) \div 2
         IN  Concat(seqs, first, middle) \o Concat(seqs, middle + 1, last)

\* the tokens of a line, lexed, and no new line token after them
LexLine_without_new_line(line) ==
    [k \in 1..Len(line) |-> Token(LexemeOf(line[k]), line[k])]

\* the tokens of a line, lexed, followed by the artificial new line token
LexLine(line) ==
    [k \in 1..(Len(line) + 1) |->
        IF k <= Len(line) THEN Token(LexemeOf(line[k]), line[k]) ELSE NewLineToken]

lex_tokenized_file(tokens) ==
    Concat([k \in 1..Len(tokens) |-> LexLine(tokens[k])], 1, Len(tokens))

-----------------------------------------------------------------------------
(* The parsers.  A configuration c holds what a parser function reads and  *)
(* writes: the token vector, the iterator, the call stack, the document    *)
(* under construction; every operator below is one step of one function:   *)
(* an iteration of its while loop, or its return.                          *)

EmptyTrialInfo ==
    [trial_map |-> EmptyMap, block_map |-> EmptyMap,
     session_map |-> EmptyMap, experiment |-> <<>>]

EmptyFile ==
    [parsed_var_sections |-> EmptyMap, parsed_trial_info |-> EmptyTrialInfo]

\* m[key] = value
MapPut(m, key, value) == (key :> value) @@ m

Top(c) == c.stack[Len(c.stack)]

SetTop(c, frame) == [c EXCEPT !.stack[Len(c.stack)] = frame]

Push(c, frame) == [c EXCEPT !.stack = Append(c.stack, frame)]

\* *ltp can be read
Readable(c, i) == 1 <= i /\ i <= Len(c.l_file)

\* a read through an iterator outside the vector: undefined behaviour
Undefined(c) == [c EXCEPT !.pc = "undefined", !.ub = "oob_read"]

\* while (ltp->lex != NEW_LINE) ltp++: where the loop stops, 0 when it runs
\* off the end of the vector
NextNewLine(c, i) ==
    IF \E j \in i..Len(c.l_file) : c.l_file[j].lex = "NEW_LINE"
    THEN CHOOSE j \in i..Len(c.l_file) :
             /\ c.l_file[j].lex = "NEW_LINE"
             /\ \A h \in i..(j - 1) : c.l_file[h].lex # "NEW_LINE"
    ELSE 0

\* a mutant: the caller does not step over the END_MARKER the callee
\* stopped on
Return_in_place(c) ==
    LET rest == SubSeq(c.stack, 1, Len(c.stack) - 1)
    IN  IF rest[Len(rest)].fn = "parse_lexed_file"
        THEN [c EXCEPT !.stack = <<>>, !.pc = "parsed"]
        ELSE [c EXCEPT !.stack = rest]

\* the callee returns: the frame is popped and the caller goes on after the
\* call, with ltp++ in the loops of parse_region and parse_trial_section,
\* with its own return in parse_lexed_expt_file / parse_lexed_build_file
Return(c) ==
    LET rest == SubSeq(c.stack, 1, Len(c.stack) - 1)
    IN  IF rest[Len(rest)].fn = "parse_lexed_file"
        THEN [c EXCEPT !.stack = <<>>, !.pc = "parsed"]
        ELSE [c EXCEPT !.stack = rest, !.ltp = c.ltp + 1]

RegionFrame(region_type) ==
    [fn |-> "parse_region", region_type |-> region_type, entered |-> FALSE]

VarSectionFrame(region_type) ==
    [fn |-> "parse_var_section", region_type |-> region_type,
     curr_section |-> [param_map |-> EmptyMap]]

TrialSectionFrame == [fn |-> "parse_trial_section"]

EmptyPair == Pair("", "")

DefFrame(def_type, def_label) ==
    [fn |-> "parse_def", def_type |-> def_type, def_label |-> def_label,
     curr_pair |-> EmptyPair, curr_trial |-> EmptyMap, curr_block |-> <<>>,
     curr_session |-> <<>>, prev_lex |-> "NONE", curr_var |-> EmptyVariable,
     shadows |-> 0]

\* a mutant: both parsers hand the same region types to parse_var_section
VarSectionTypes_shared(parser) ==
    {"mf_input", "activity", "trial_spec", "connectivity"}

\* the region types parse_region hands to parse_var_section
VarSectionTypes(parser) ==
    IF parser = "expt" THEN {"mf_input", "activity", "trial_spec"}
    ELSE {"connectivity", "activity"}

\* the region type the filetype region must have
ExpectedFiletype(parser) == IF parser = "expt" THEN "run" ELSE "build"

\* a mutant: a comment is skipped like any other token
SkipToken_by_one(c) == [c EXCEPT !.ltp = c.ltp + 1]

\* one iteration of a loop that only skips: a comment to its new line, any
\* other token by one
SkipToken(c) ==
    IF c.l_file[c.ltp].lex = "SINGLE_COMMENT"
    THEN LET nl == NextNewLine(c, c.ltp)
         IN  IF nl = 0 THEN Undefined(c) ELSE [c EXCEPT !.ltp = nl + 1]
    ELSE [c EXCEPT !.ltp = c.ltp + 1]

\* parse_lexed_expt_file / parse_lexed_build_file: one iteration of
\* while (ltp->lex != BEGIN_MARKER)
parse_lexed_file_scan(c) ==
    IF ~Readable(c, c.ltp) THEN Undefined(c)
    ELSE IF c.l_file[c.ltp].lex \notin {"SINGLE_COMMENT", "NEW_LINE"}
    THEN [c EXCEPT !.pc = "exit_1"]
    ELSE SkipToken(c)

\* parse_lexed_expt_file / parse_lexed_build_file once ltp is on a
\* BEGIN_MARKER: the checks of the filetype region
parse_lexed_file_header(c) ==
    LET next_lt        == c.ltp + 1
        second_next_lt == c.ltp + 2
    IN  IF ~Readable(c, next_lt) THEN Undefined(c)
        ELSE IF c.l_file[next_lt].lex = "REGION"
        THEN IF c.l_file[next_lt].raw_token # "filetype"
             THEN [c EXCEPT !.pc = "exit_2"]
             ELSE IF ~Readable(c, second_next_lt) THEN Undefined(c)
             ELSE IF c.l_file[second_next_lt].raw_token # ExpectedFiletype(c.parser)
             THEN [c EXCEPT !.pc = "exit_3"]
             ELSE Push([c EXCEPT !.ltp = c.ltp + 4],
                       RegionFrame(c.l_file[second_next_lt].raw_token))
        ELSE [c EXCEPT !.pc = "exit_4"]

\* parse_region: the dispatch on region_type at its entry, then one
\* iteration of the while loop of its else branch
parse_region(c) ==
    LET f == Top(c)
        next_lt        == c.ltp + 1
        second_next_lt == c.ltp + 2
    IN  IF ~f.entered
        THEN IF f.region_type \in VarSectionTypes(c.parser)
             THEN SetTop(c, VarSectionFrame(f.region_type))
             ELSE IF c.parser = "expt" /\ f.region_type = "trial_def"
             THEN SetTop(c, TrialSectionFrame)
             ELSE SetTop(c, [f EXCEPT !.entered = TRUE])
        ELSE IF ~Readable(c, c.ltp) THEN Undefined(c)
        ELSE IF c.l_file[c.ltp].lex = "END_MARKER" THEN Return(c)
        ELSE IF c.l_file[c.ltp].lex = "BEGIN_MARKER"
        THEN IF ~Readable(c, next_lt) THEN Undefined(c)
             ELSE IF c.l_file[next_lt].lex # "REGION"
             THEN [c EXCEPT !.ltp = c.ltp + 1]
             ELSE IF ~Readable(c, second_next_lt) THEN Undefined(c)
             ELSE IF c.l_file[second_next_lt].lex # "REGION_TYPE"
             THEN [c EXCEPT !.ltp = c.ltp + 1]
             ELSE Push([c EXCEPT !.ltp = c.ltp + 4],
                       RegionFrame(c.l_file[second_next_lt].raw_token))
        ELSE SkipToken(c)

\* parse_var_section: one iteration of its while loop, or the store of the
\* section at the END_MARKER
parse_var_section(c) ==
    LET f == Top(c)
        next_lt        == c.ltp + 1
        second_next_lt == c.ltp + 2
    IN  IF ~Readable(c, c.ltp) THEN Undefined(c)
        ELSE IF c.l_file[c.ltp].lex = "END_MARKER"
        THEN Return([c EXCEPT !.e_file.parsed_var_sections =
                        MapPut(@, f.region_type, f.curr_section)])
        ELSE IF c.l_file[c.ltp].lex = "TYPE_NAME"
        THEN IF ~Readable(c, next_lt) THEN Undefined(c)
             ELSE IF c.l_file[next_lt].lex # "VAR_IDENTIFIER"
             THEN [c EXCEPT !.ltp = c.ltp + 1]
             ELSE IF ~Readable(c, second_next_lt) THEN Undefined(c)
             ELSE IF c.l_file[second_next_lt].lex # "VAR_VALUE"
             THEN [c EXCEPT !.ltp = c.ltp + 1]
             ELSE LET curr_var == Var(c.l_file[c.ltp].raw_token,
                                      c.l_file[next_lt].raw_token,
                                      c.l_file[second_next_lt].raw_token)
                  IN  SetTop([c EXCEPT !.ltp = c.ltp + 3],
                          [f EXCEPT !.curr_section.param_map =
                              MapPut(@, c.l_file[next_lt].raw_token, curr_var)])
        ELSE SkipToken(c)

\* parse_trial_section: one iteration of its while loop
parse_trial_section(c) ==
    LET next_lt        == c.ltp + 1
        second_next_lt == c.ltp + 2
    IN  IF ~Readable(c, c.ltp) THEN Undefined(c)
        ELSE IF c.l_file[c.ltp].lex = "END_MARKER" THEN Return(c)
        ELSE IF c.l_file[c.ltp].lex = "DEF"
        THEN IF ~Readable(c, next_lt) THEN Undefined(c)
             ELSE IF c.l_file[next_lt].lex # "DEF_TYPE"
             THEN [c EXCEPT !.ltp = c.ltp + 1]
             ELSE IF ~Readable(c, second_next_lt) THEN Undefined(c)
             ELSE IF c.l_file[second_next_lt].lex # "VAR_IDENTIFIER"
             THEN [c EXCEPT !.ltp = c.ltp + 1]
             ELSE Push([c EXCEPT !.ltp = c.ltp + 4],
                       DefFrame(c.l_file[next_lt].raw_token,
                                c.l_file[second_next_lt].raw_token))
        ELSE SkipToken(c)


\* std::vector::insert(pos, token)
InsertAt(seq, pos, token) ==
    SubSeq(seq, 1, pos - 1) \o <<token>> \o SubSeq(seq, pos, Len(seq))

\* the push_back of a finished pair onto the list def_type names
StorePair(c, f, pair) ==
    IF f.def_type = "block"
    THEN SetTop(c, [f EXCEPT !.curr_pair = pair, !.curr_block = Append(@, pair)])
    ELSE IF f.def_type = "session"
    THEN SetTop(c, [f EXCEPT !.curr_pair = pair, !.curr_session = Append(@, pair)])
    ELSE IF f.def_type = "experiment"
    THEN SetTop([c EXCEPT !.e_file.parsed_trial_info.experiment = Append(@, pair)],
                [f EXCEPT !.curr_pair = pair])
    ELSE SetTop(c, [f EXCEPT !.curr_pair = pair])

\* parse_def, case VAR_IDENTIFIER
parse_def_identifier(c) ==
    LET f   == Top(c)
        raw == c.l_file[c.ltp].raw_token
    IN  IF f.def_type = "trial"
        THEN IF f.prev_lex # "TYPE_NAME" THEN c
             ELSE SetTop(c, [f EXCEPT !.curr_var.identifier = raw])
        ELSE IF f.curr_pair.first # ""
        THEN \* the shadow token: ltp = insert(ltp, shadow); ltp--
             IF f.shadows >= c.cap THEN [c EXCEPT !.pc = "capped"]
             ELSE SetTop([c EXCEPT
                            !.l_file = InsertAt(@, c.ltp, Token("VAR_VALUE", "1")),
                            !.ltp = c.ltp - 1],
                         [f EXCEPT !.shadows = @ + 1])
        ELSE SetTop(c, [f EXCEPT !.curr_pair.first = raw])

\* parse_def, case VAR_VALUE
parse_def_value(c) ==
    LET f   == Top(c)
        raw == c.l_file[c.ltp].raw_token
    IN  IF f.prev_lex \notin {"VAR_IDENTIFIER", "NEW_LINE"} THEN c
        ELSE IF f.def_type = "trial"
        THEN LET curr_var == [f.curr_var EXCEPT !.value = raw]
             IN  SetTop(c, [f EXCEPT
                              !.curr_trial = MapPut(@, curr_var.identifier, curr_var),
                              !.curr_var = EmptyVariable])
        ELSE LET stored == StorePair(c, f, [f.curr_pair EXCEPT !.second = raw])
             IN  SetTop(stored, [Top(stored) EXCEPT !.curr_pair = EmptyPair])

\* parse_def, the switch on ltp->lex
parse_def_switch(c) ==
    LET f   == Top(c)
        tok == c.l_file[c.ltp]
    IN  CASE tok.lex = "TYPE_NAME" ->
                IF f.def_type = "trial"
                THEN SetTop(c, [f EXCEPT !.curr_var.type_name = tok.raw_token])
                ELSE c
          [] tok.lex = "VAR_IDENTIFIER" -> parse_def_identifier(c)
          [] tok.lex = "VAR_VALUE" -> parse_def_value(c)
          [] tok.lex = "SINGLE_COMMENT" ->
                LET nl == NextNewLine(c, c.ltp)
                IN  IF nl = 0 THEN Undefined(c) ELSE [c EXCEPT !.ltp = nl]
          [] OTHER -> c

\* a mutant: no default count for the identifier pending at the END_MARKER
parse_def_advance_no_default(c) ==
    LET moved == SetTop([c EXCEPT !.ltp = c.ltp + 1],
                        [Top(c) EXCEPT !.prev_lex = c.l_file[c.ltp].lex])
    IN  IF ~Readable(moved, moved.ltp) THEN Undefined(moved) ELSE moved

\* parse_def after the switch: prev_lex = ltp->lex; ltp++; and the default
\* count of an identifier left pending at the END_MARKER
parse_def_advance(c) ==
    LET f    == Top(c)
        moved == SetTop([c EXCEPT !.ltp = c.ltp + 1],
                        [f EXCEPT !.prev_lex = c.l_file[c.ltp].lex])
    IN  IF ~Readable(moved, moved.ltp) THEN Undefined(moved)
        ELSE IF /\ moved.l_file[moved.ltp].lex = "END_MARKER"
                /\ f.def_type # "trial"
                /\ f.curr_pair.first # ""
                /\ f.curr_pair.second = ""
        THEN StorePair(moved, Top(moved), [f.curr_pair EXCEPT !.second = "1"])
        ELSE moved

\* a mutant: the definition is parsed and dropped
parse_def_store_nothing(c) == c

\* the assignments after the while loop of parse_def
parse_def_store(c) ==
    LET f == Top(c)
    IN  IF f.def_type = "trial"
        THEN [c EXCEPT !.e_file.parsed_trial_info.trial_map =
                           MapPut(@, f.def_label, f.curr_trial)]
        ELSE IF f.def_type = "block"
        THEN [c EXCEPT !.e_file.parsed_trial_info.block_map =
                           MapPut(@, f.def_label, f.curr_block)]
        ELSE IF f.def_type = "session"
        THEN [c EXCEPT !.e_file.parsed_trial_info.session_map =
                           MapPut(@, f.def_label, f.curr_session)]
        ELSE c

\* parse_def: one iteration of its while loop, or its end at the END_MARKER
parse_def(c) ==
    IF ~Readable(c, c.ltp) THEN Undefined(c)
    ELSE IF c.l_file[c.ltp].lex = "END_MARKER" THEN Return(parse_def_store(c))
    ELSE LET switched == parse_def_switch(c)
         IN  IF switched.pc # "parsing" THEN switched
             ELSE parse_def_advance(switched)

\* the step of the function on top of the call stack
ParserStep(c) ==
    LET fn == Top(c).fn
    IN  CASE fn = "parse_lexed_file" ->
                IF Readable(c, c.ltp) /\ c.l_file[c.ltp].lex = "BEGIN_MARKER"
                THEN parse_lexed_file_header(c)
                ELSE parse_lexed_file_scan(c)
          [] fn = "parse_region" -> parse_region(c)
          [] fn = "parse_var_section" -> parse_var_section(c)
          [] fn = "parse_trial_section" -> parse_trial_section(c)
          [] fn = "parse_def" -> parse_def(c)

\* the configuration in which parse_lexed_expt_file (parser = "expt") or
\* parse_lexed_build_file (parser = "build") starts on a lexed file
StartParse(parser, tokens) ==
    [l_file |-> tokens, ltp |-> 1, stack |-> <<[fn |-> "parse_lexed_file"]>>,
     e_file |-> EmptyFile, pc |-> "parsing", ub |-> "",
     parser |-> parser, cap |-> Len(tokens)]

RECURSIVE RunParser(_, _)
\* the configuration the parser ends in, followed for at most n steps: the
\* first half of them, then the second half
RunParser(c, n) ==
    IF c.pc # "parsing" \/ n = 0 THEN c
    ELSE IF n = 1 THEN ParserStep(c)
    ELSE RunParser(RunParser(c, n \div 2), n - n \div 2)

\* the parser run to its end on a lexed file: no run of the model takes more
\* steps than this: a step per token, per inserted token and per call
ParseResult(parser, tokens) == RunParser(StartParse(parser, tokens), 4 * Len(tokens) + 8)

-----------------------------------------------------------------------------
(* The program: lex the tokenized file, parse it, translate the trials.    *)

Lexed == lex_tokenized_file(t_file)

Cfg ==
    [l_file |-> l_file, ltp |-> ltp, stack |-> stack, e_file |-> e_file,
     pc |-> pc, ub |-> ub, parser |-> doc.parser, cap |-> Len(Lexed)]

Becomes(c) ==
    /\ l_file' = c.l_file
    /\ ltp' = c.ltp
    /\ stack' = c.stack
    /\ e_file' = c.e_file
    /\ pc' = c.pc
    /\ ub' = c.ub
    /\ UNCHANGED <<td, doc, t_file>>

Running(fn) == pc = "parsing" /\ stack[Len(stack)].fn = fn

OnBegin == ltp \in 1..Len(l_file) /\ l_file[ltp].lex = "BEGIN_MARKER"

LexTokenizedFile ==
    /\ pc = "lex"
    /\ Becomes(StartParse(doc.parser, Lexed))

ParseLexedFileScan ==
    /\ Running("parse_lexed_file")
    /\ ~OnBegin
    /\ Becomes(parse_lexed_file_scan(Cfg))

ParseLexedFileHeader ==
    /\ Running("parse_lexed_file")
    /\ OnBegin
    /\ Becomes(parse_lexed_file_header(Cfg))

ParseRegion == Running("parse_region") /\ Becomes(parse_region(Cfg))

ParseVarSection == Running("parse_var_section") /\ Becomes(parse_var_section(Cfg))

ParseTrialSection == Running("parse_trial_section") /\ Becomes(parse_trial_section(Cfg))

ParseDef == Running("parse_def") /\ Becomes(parse_def(Cfg))

Parse ==
    \/ LexTokenizedFile
    \/ ParseLexedFileScan
    \/ ParseLexedFileHeader
    \/ ParseRegion
    \/ ParseVarSection
    \/ ParseTrialSection
    \/ ParseDef

-----------------------------------------------------------------------------
(* The input files.  A file is written as its words, with "\n" for the end *)
(* of a line and " " for white space that stands alone.                    *)

\* the k-th smallest element of a set of numbers
Nth(set, k) == CHOOSE i \in set : Cardinality({j \in set : j <= i}) = k

\* the elements of seq at the indices of keep, in order
Pick(seq, keep) == [k \in 1..Cardinality(keep) |-> seq[Nth(keep, k)]]

\* tokenize_file: getline reads up to each "\n" and up to the end of the
\* file; a line that is the empty string is skipped; operator>> takes the
\* words of any other line, white space dropped
tokenize_file(words) ==
    LET ends == {i \in 1..Len(words) : words[i] = "\n"} \cup {Len(words) + 1}
        StartOf(e) == IF \E i \in ends : i < e
                      THEN 1 + CHOOSE i \in ends :
                                   i < e /\ \A j \in ends : j < e => j <= i
                      ELSE 1
        read == {e \in ends : StartOf(e) < e}
        LineTokens(e) == Pick(words, {i \in StartOf(e)..(e - 1) : words[i] # " "})
    IN  [k \in 1..Cardinality(read) |-> LineTokens(Nth(read, k))]

\* the sequences of at most n elements of a set
SeqsUpTo(alphabet, n) == UNION {[1..k -> alphabet] : k \in 0..n}

Parsers == {"expt", "build"}

FiletypeLine(parser) == <<"begin", "filetype", ExpectedFiletype(parser), "\n">>

\* the variable section each parser is given: mf_input in an experiment
\* file, connectivity in a build file
SectionOf(parser) == IF parser = "expt" THEN "mf_input" ELSE "connectivity"

MaxItems == 3

VarItems ==
    {<<"int", "rate", "40">>, <<"float", "rate", "5">>, <<"int", "x", "7">>,
     <<"int">>, <<"rate">>, <<"40">>, <<"//">>, <<"\n">>}

\* a variable section with its header alone on its line, and a body of at
\* most MaxItems items
VarWords(parser, items) ==
    FiletypeLine(parser) \o <<"begin", "section", SectionOf(parser), "\n">>
    \o Concat(items, 1, Len(items)) \o <<"end", "\n", "end", "\n">>

VarDocs ==
    {[parser |-> parser, family |-> "var",
      file |-> VarWords(parser, items), opens |-> TRUE] :
         parser \in Parsers, items \in SeqsUpTo(VarItems, MaxItems)}

MaxBody == 4

DefWords == {"t1", "t2", "2", "//", "\n"}

DefKinds == {"block", "session", "experiment"}

\* a definition with its header alone on its line, and a body of at most
\* MaxBody words
DefBodyWords(kind, body) ==
    FiletypeLine("expt") \o <<"begin", "section", "trial_def", "\n">>
    \o <<"def", kind, "b1", "\n">> \o body
    \o <<"end", "\n", "end", "\n", "end", "\n">>

DefDocs ==
    {[parser |-> "expt", family |-> "def",
      file |-> DefBodyWords(kind, body), opens |-> TRUE] :
         kind \in DefKinds, body \in SeqsUpTo(DefWords, MaxBody)}

MaxHeader == 3

HeaderWords == {"begin", "filetype", "section", "run", "build", "x", "//", "\n"}

\* what follows the first words of the file: nothing, or a variable section
\* and the end of the file
HeaderTails(parser) ==
    {<<>>,
     <<"\n", "begin", "section", SectionOf(parser), "\n",
       "int", "rate", "40", "\n", "end", "\n", "end", "\n">>}

HeaderDocs ==
    {[parser |-> parser, family |-> "header",
      file |-> first \o tail, opens |-> TRUE] :
         parser \in Parsers, first \in SeqsUpTo(HeaderWords, MaxHeader),
         tail \in HeaderTails("expt") \cup HeaderTails("build")}

MaxComment == 3

CommentWords == {"c", "int", "x", "7", "end"}

\* nothing, or a comment of at most MaxComment words
Comments ==
    {<<>>} \cup {<<"//">> \o text : text \in SeqsUpTo(CommentWords, MaxComment)}

\* an experiment file with a variable section and a block definition, and a
\* comment at the end of each of its three header lines
CommentedWords(on_filetype, on_section, on_def) ==
    <<"begin", "filetype", "run">> \o on_filetype \o <<"\n">>
    \o <<"begin", "section", "mf_input">> \o on_section \o <<"\n">>
    \o <<"int", "rate", "40", "\n", "end", "\n">>
    \o <<"begin", "section", "trial_def", "\n">>
    \o <<"def", "block", "b1">> \o on_def \o <<"\n">>
    \o <<"t1", "2", "\n", "end", "\n", "end", "\n", "end", "\n">>

CommentDocs ==
    {[parser |-> "expt", family |-> "comment",
      file |-> CommentedWords(w[1], w[2], w[3]), opens |-> TRUE] :
         w \in {<<comment, <<>>, <<>>>> : comment \in Comments}
               \cup {<<<<>>, comment, <<>>>> : comment \in Comments}
               \cup {<<<<>>, <<>>, comment>> : comment \in Comments}}

FieldTypes == <<"int", "int", "int", "int", "int", "float", "int", "int">>

Trial1Values == <<"1", "2", "3", "100", "40", "0.5", "4", "5">>

\* the first n fields of the trial, each followed by sep
FieldWords(sep, n) ==
    Concat([k \in 1..n |-> <<FieldTypes[k], FieldNames[k], Trial1Values[k]>> \o sep],
           1, n)

\* the trial_def region around two definitions
TrialDefWords(defs) ==
    FiletypeLine("expt") \o <<"begin", "section", "trial_def", "\n">>
    \o defs \o <<"end", "\n", "end", "\n">>

\* def trial t1 ... end and def experiment t1 5 end, each on one line
OneLineWords ==
    TrialDefWords(<<"def", "trial", "t1">> \o FieldWords(<<>>, 8) \o <<"end", "\n">>
                  \o <<"def", "experiment", "t1", "5", "end", "\n">>)

\* the same words, one header, one field, one pair and one end per line
UnlabelledWords ==
    TrialDefWords(<<"def", "trial", "t1", "\n">> \o FieldWords(<<"\n">>, 8)
                  \o <<"end", "\n">>
                  \o <<"def", "experiment", "\n", "t1", "5", "\n", "end", "\n">>)

\* the experiment definition with a label of its own
LabelledWords ==
    TrialDefWords(<<"def", "trial", "t1", "\n">> \o FieldWords(<<"\n">>, 8)
                  \o <<"end", "\n">>
                  \o <<"def", "experiment", "e1", "\n", "t1", "5", "\n", "end", "\n">>)

EndToEndDocs ==
    {[parser |-> "expt", family |-> "end_to_end", file |-> file, opens |-> TRUE] :
         file \in {OneLineWords, UnlabelledWords, LabelledWords}}

MaxLine == 3

\* a keyword, an identifier, three values, a token that is neither, the
\* two pattern strings, white space and the end of a line
LexWords ==
    {"int", "t1", "2", "1e5", "+", "@", var_id_regex_str, var_val_regex_str,
     " ", "\n"}

\* files of at most MaxLine words that have no begin
LexDocs ==
    {[parser |-> "expt", family |-> "lex", file |-> words, opens |-> TRUE] :
         words \in SeqsUpTo(LexWords, MaxLine)}

\* the files that cannot be opened
MissingDocs ==
    {[parser |-> parser, family |-> "missing", file |-> <<>>, opens |-> FALSE] :
         parser \in Parsers}

MaxGap == 3

\* identifiers, a type name, a keyword and a word of no lexeme
GapWords == {"t1", "int", "begin", "@"}

\* a definition whose body is one line of at most MaxGap words of GapWords
GapDocs ==
    {[parser |-> "expt", family |-> "gap",
      file |-> DefBodyWords(kind, Append(body, "\n")), opens |-> TRUE] :
         kind \in DefKinds, body \in SeqsUpTo(GapWords, MaxGap)}

MaxTrial == 3

TrialWords == {"int", "c", "x", "1", "\n"}

\* a trial definition whose body holds at most MaxTrial words of TrialWords
TrialDocs ==
    {[parser |-> "expt", family |-> "trial",
      file |-> DefBodyWords("trial", Append(body, "\n")), opens |-> TRUE] :
         body \in SeqsUpTo(TrialWords, MaxTrial)}

\* a variable section of one triple, for either parser
OneTripleWords(parser) == VarWords(parser, <<<<"int", "rate", "40">>, <<"\n">>>>)

\* the files that stop early: every prefix of the labelled experiment file
\* and of a file with one variable section
TruncatedDocs ==
    {[parser |-> "expt", family |-> "truncated",
      file |-> SubSeq(LabelledWords, 1, k), opens |-> TRUE] :
         k \in 0..Len(LabelledWords)}
    \cup
    {[parser |-> parser, family |-> "truncated",
      file |-> SubSeq(OneTripleWords(parser), 1, k), opens |-> TRUE] :
         parser \in Parsers, k \in 0..Len(OneTripleWords("expt"))}

\* the raw tokens of lexeme REGION_TYPE
RegionTypes ==
    {"build", "run", "connectivity", "activity", "trial_def", "mf_input",
     "trial_spec"}

\* what a region of the files of DispatchDocs holds: a variable, or a block
\* definition
RegionContents ==
    {<<"int", "rate", "40", "\n">>,
     <<"def", "block", "b1", "\n", "t1", "2", "\n", "end", "\n">>}

\* a region of type outer in the filetype region, holding content, directly
\* or in a nested region of type inner
DispatchWords(parser, outer, inner, content) ==
    FiletypeLine(parser) \o <<"begin", "section", outer, "\n">>
    \o (IF inner = "" THEN content
        ELSE <<"begin", "section", inner, "\n">> \o content \o <<"end", "\n">>)
    \o <<"end", "\n", "end", "\n">>

DispatchDocs ==
    {[parser |-> parser, family |-> "dispatch",
      file |-> DispatchWords(parser, outer, inner, content), opens |-> TRUE] :
         parser \in Parsers, outer \in RegionTypes,
         inner \in RegionTypes \cup {""}, content \in RegionContents}

Init ==
    /\ doc \in VarDocs \cup DefDocs \cup HeaderDocs \cup CommentDocs
                \cup EndToEndDocs \cup LexDocs \cup MissingDocs \cup GapDocs
                \cup TrialDocs \cup TruncatedDocs \cup DispatchDocs
    /\ t_file = <<>>
    /\ l_file = <<>>
    /\ ltp = 1
    /\ stack = <<>>
    /\ e_file = EmptyFile
    /\ td = allocate_trials_data(0)
    /\ pc = "tokenize"
    /\ ub = ""

\* tokenize_file, whole: exit(3) when the file does not open, else the
\* lines of the file, split at white space
TokenizeFile ==
    /\ pc = "tokenize"
    /\ IF doc.opens
       THEN t_file' = tokenize_file(doc.file) /\ pc' = "lex"
       ELSE t_file' = t_file /\ pc' = "exit_3"
    /\ UNCHANGED <<l_file, ltp, stack, e_file, td, doc, ub>>

Next == TokenizeFile \/ Parse \/ Translate

Spec == Init /\ [][Next]_vars

\* every run of the parser that RunParser follows reaches its end
RunParserEnds ==
    pc = "lex" => ParseResult(doc.parser, Lexed).pc # "parsing"

\* the parser of the actions and RunParser are the same parser
RunParserAgrees ==
    (doc.opens /\ pc \in {"parsed", "undefined", "capped",
                           "exit_1", "exit_2", "exit_3", "exit_4"})
        => LET r == ParseResult(doc.parser, Lexed)
           IN  /\ r.pc = pc
               /\ r.e_file = e_file
               /\ r.l_file = l_file

-----------------------------------------------------------------------------
(* Properties of the parsers.                                              *)

\* the program has stopped: the parser left through exit() or through
\* undefined behaviour, or the last function called has returned or thrown
Stopped ==
    \/ pc \in {"exit_1", "exit_2", "exit_3", "exit_4", "undefined", "capped"}
    \/ pc \in {"returned", "threw", "crashed"}
    \/ pc = "parsed" /\ doc.parser = "build"

\* the parser has stopped
ParserStopped ==
    pc \in {"parsed", "exit_1", "exit_2", "exit_3", "exit_4", "undefined", "capped"}

\* the table the end to end example expects
ExampleTable ==
    /\ td.num_trials = 5
    /\ td.trial_names = <<"t1", "t1", "t1", "t1", "t1">>
    /\ td.use_css = <<1, 1, 1, 1, 1>>
    /\ td.cs_onsets = <<100, 100, 100, 100, 100>>

InComment(tokens, i) ==
    \E j \in 1..i :
        /\ tokens[j].lex = "SINGLE_COMMENT"
        /\ \A h \in j..i : tokens[h].lex # "NEW_LINE"

\* the first END_MARKER outside comments at or after from
FirstEnd(tokens, from) ==
    CHOOSE i \in from..Len(tokens) :
        /\ tokens[i].lex = "END_MARKER" /\ ~InComment(tokens, i)
        /\ \A j \in from..(i - 1) :
               ~(tokens[j].lex = "END_MARKER" /\ ~InComment(tokens, j))

\* where the consecutive triples TYPE_NAME VAR_IDENTIFIER VAR_VALUE outside
\* comments start, from the token at from up to the region's END_MARKER
TriplesIn(tokens, from) ==
    {i \in from..(FirstEnd(tokens, from) - 1) :
        /\ ~InComment(tokens, i)
        /\ tokens[i].lex = "TYPE_NAME"
        /\ tokens[i + 1].lex = "VAR_IDENTIFIER"
        /\ tokens[i + 2].lex = "VAR_VALUE"}

\* each identifier of a triple, mapped to the last triple that names it
ExpectedParams(tokens, from) ==
    LET triples == TriplesIn(tokens, from)
        LastOf(id) == CHOOSE i \in triples :
                          /\ tokens[i + 1].raw_token = id
                          /\ \A j \in triples : tokens[j + 1].raw_token = id => j <= i
    IN  [id \in {tokens[i + 1].raw_token : i \in triples} |->
            Var(tokens[LastOf(id)].raw_token, id, tokens[LastOf(id) + 2].raw_token)]

\* the first token after the two header lines of the files of VarDocs
VarBodyStart == Len(FiletypeLine("expt")) + Len(<<"begin", "section", "mf_input", "\n">>) + 1

\* C5: for a variable section whose header stands alone on its line, the
\* stored param_map holds exactly the identifiers of the consecutive triples
\* TYPE_NAME VAR_IDENTIFIER VAR_VALUE outside comments before the region's
\* END_MARKER, each mapped to the last such triple; a TYPE_NAME not followed
\* by an identifier and a value adds nothing.  Both parsers.
C5_ParamMapIsTheTriples ==
    (/\ doc.family = "var"
     /\ pc # "undefined"
     /\ SectionOf(doc.parser) \in DOMAIN e_file.parsed_var_sections)
        => e_file.parsed_var_sections[SectionOf(doc.parser)].param_map
               = ExpectedParams(Lexed, VarBodyStart)

\* `int rate 40 // int x 7 end` inside mf_input: rate is stored, the triple
\* in the comment is not
C5_Witness ==
    /\ doc.family = "var"
    /\ Len(t_file) >= 3
    /\ t_file[3] = <<"int", "rate", "40", "//", "int", "x", "7", "end">>
    /\ "mf_input" \in DOMAIN e_file.parsed_var_sections
    /\ e_file.parsed_var_sections["mf_input"].param_map
           = ("rate" :> Var("int", "rate", "40"))

\* the tokens from the one at from up to, not including, the one at to that
\* are neither new lines nor part of a comment
Visible(tokens, from, to) ==
    Pick(tokens, {i \in from..(to - 1) :
                     tokens[i].lex # "NEW_LINE" /\ ~InComment(tokens, i)})

\* identifiers, each optionally followed by a value
IdentifiersWithCounts(v) ==
    \A k \in 1..Len(v) :
        /\ v[k].lex \in {"VAR_IDENTIFIER", "VAR_VALUE"}
        /\ v[k].lex = "VAR_VALUE" => (k > 1 /\ v[k - 1].lex = "VAR_IDENTIFIER")

\* one pair per identifier, in order: its count is the value that follows
\* it, "1" when no value follows
ExpectedPairs(v) ==
    LET identifiers == {k \in 1..Len(v) : v[k].lex = "VAR_IDENTIFIER"}
        CountAt(k) == IF k + 1 <= Len(v) /\ v[k + 1].lex = "VAR_VALUE"
                      THEN v[k + 1].raw_token ELSE "1"
    IN  [n \in 1..Cardinality(identifiers) |->
            Pair(v[Nth(identifiers, n)].raw_token, CountAt(Nth(identifiers, n)))]

\* the first token after the three header lines of the files of DefDocs
DefBodyStart == VarBodyStart + Len(<<"def", "block", "b1", "\n">>)

DefBody == Visible(Lexed, DefBodyStart, FirstEnd(Lexed, DefBodyStart))

\* parse_def has been called on the definition and has returned
DefClosed ==
    /\ pc \notin {"lex", "undefined", "capped"}
    /\ ltp > DefBodyStart
    /\ \A k \in 1..Len(stack) : stack[k].fn # "parse_def"

\* the pair list stored for the definition of the files of DefDocs
StoredPairs ==
    LET kind == t_file[3][2]
        info == e_file.parsed_trial_info
    IN  IF kind = "block" THEN info.block_map["b1"]
        ELSE IF kind = "session" THEN info.session_map["b1"]
        ELSE info.experiment

\* C6: for a block, session or experiment definition whose body holds only
\* identifiers, each optionally followed by a value, with new lines and
\* comments between them, the stored list has one pair per identifier, in
\* order, with the value that follows it as count, and "1" when another
\* identifier or the END_MARKER follows.
C6_DefaultCountIsOne ==
    (doc.family = "def" /\ DefClosed /\ IdentifiersWithCounts(DefBody))
        => StoredPairs = ExpectedPairs(DefBody)

\* t1 t2 2 t1: a default before an identifier, a given count, and a default
\* at the END_MARKER
C6_Witness ==
    /\ doc.family = "def"
    /\ pc = "parsed"
    /\ "b1" \in DOMAIN e_file.parsed_trial_info.block_map
    /\ e_file.parsed_trial_info.block_map["b1"]
           = <<Pair("t1", "1"), Pair("t2", "2"), Pair("t1", "1")>>

\* the first tokens that are neither comments nor new lines are
\* begin filetype run for parse_lexed_expt_file, begin filetype build for
\* parse_lexed_build_file
HeaderOK ==
    LET first == Visible(Lexed, 1, Len(Lexed) + 1)
    IN  /\ Len(first) >= 3
        /\ first[1].raw_token = "begin"
        /\ first[2].raw_token = "filetype"
        /\ first[3].raw_token = ExpectedFiletype(doc.parser)

\* C7: regions are parsed only when the first tokens outside comments are
\* begin filetype run (resp. build); in every other case the parser ends in
\* a fatal error before anything is stored.
C7_HeaderIsValidated ==
    /\ (\E k \in 1..Len(stack) : stack[k].fn = "parse_region") => HeaderOK
    /\ ~HeaderOK =>
           /\ e_file = EmptyFile
           /\ pc \in {"tokenize", "lex", "parsing",
                      "exit_1", "exit_2", "exit_3", "exit_4"}

\* the same, but for the files in which the scan for the first begin runs
\* off the end of the token vector
HeaderIsValidatedOrCursorLeaves ==
    /\ (\E k \in 1..Len(stack) : stack[k].fn = "parse_region") => HeaderOK
    /\ ~HeaderOK =>
           /\ e_file = EmptyFile
           /\ pc \in {"tokenize", "lex", "parsing",
                      "exit_1", "exit_2", "exit_3", "exit_4", "undefined"}
           /\ pc = "undefined" =>
                  \A k \in 1..Len(Lexed) :
                      Lexed[k].lex = "BEGIN_MARKER" => InComment(Lexed, k)

\* the tokens of the line before its first //
BeforeComment(line) ==
    Pick(line, {i \in 1..Len(line) : \A j \in 1..i : line[j] # "//"})

\* the file with every // and what follows it on its line deleted
StripComments(tokens) ==
    [k \in 1..Len(tokens) |-> BeforeComment(tokens[k])]

\* the parse of the file without its comments
Uncommented == ParseResult(doc.parser, lex_tokenized_file(StripComments(t_file)))

\* C10: the tokens between a // and the new line of its line contribute
\* nothing: the file parses to the same variable sections and hierarchy as
\* the file with every comment deleted, header lines included.
C10_CommentsHaveNoEffect ==
    (ParserStopped /\ (pc = "parsed" \/ Uncommented.pc = "parsed"))
        => pc = Uncommented.pc /\ e_file = Uncommented.e_file

\* the same for the files whose header lines carry no comment
CommentsOffHeadersHaveNoEffect ==
    (/\ doc.family \in {"var", "def"}
     /\ ParserStopped /\ (pc = "parsed" \/ Uncommented.pc = "parsed"))
        => pc = Uncommented.pc /\ e_file = Uncommented.e_file

-----------------------------------------------------------------------------
(* The lexer's classification.                                             *)

\* the keywords of the language
Keywords ==
    {"begin", "end", "filetype", "section", "build", "run", "connectivity",
     "activity", "trial_def", "mf_input", "trial_spec", "int", "float",
     "def", "trial", "block", "session", "experiment", "//", "/*", "*/"}

\* the lexeme a raw token is to get: the keyword's, else by the patterns
ClassOf(raw_token) ==
    IF raw_token \in Keywords THEN token_defs[raw_token]
    ELSE IF MatchesVarId(Spelling[raw_token]) THEN "VAR_IDENTIFIER"
    ELSE IF MatchesVarVal(Spelling[raw_token]) THEN "VAR_VALUE"
    ELSE "NONE"

\* the tokens of the lexed file that came from the tokenized file
RawTokensAt == {i \in 1..Len(l_file) : l_file[i].lex # "NEW_LINE"}

\* C11: every token of the lexed file that is a keyword has the keyword's
\* lexeme, never VAR_IDENTIFIER; every other token is a VAR_IDENTIFIER when
\* it matches the identifier pattern, else a VAR_VALUE when it matches the
\* numeric pattern, else NONE.
C11_ClassificationOrder ==
    \A i \in RawTokensAt :
        /\ l_file[i].lex = ClassOf(l_file[i].raw_token)
        /\ l_file[i].raw_token \in Keywords => l_file[i].lex # "VAR_IDENTIFIER"

\* the same, the tokens that spell one of the two patterns left aside
ClassificationOrderOffPatternStrings ==
    \A i \in RawTokensAt :
        l_file[i].raw_token \notin {var_id_regex_str, var_val_regex_str}
            => /\ l_file[i].lex = ClassOf(l_file[i].raw_token)
               /\ l_file[i].raw_token \in Keywords
                      => l_file[i].lex # "VAR_IDENTIFIER"

\* a lexed line with a keyword, a token matching neither pattern and a value
ClassificationSeen ==
    /\ doc.family = "lex"
    /\ Len(l_file) = 4
    /\ <<l_file[1].lex, l_file[2].lex, l_file[3].lex>>
           = <<"TYPE_NAME", "NONE", "VAR_VALUE">>

-----------------------------------------------------------------------------
(* The lexed file against the tokenized file.                              *)

\* lex_tokenized_file has returned and the parser has not yet moved
JustLexed ==
    /\ pc = "parsing"
    /\ ltp = 1
    /\ Len(stack) = 1
    /\ stack[1].fn = "parse_lexed_file"

RECURSIVE EndOfLine(_)
\* the place in the lexed file of the new line that closes line k
EndOfLine(k) == IF k = 0 THEN 0 ELSE EndOfLine(k - 1) + Len(t_file[k]) + 1

\* C12: the lexed file is, line after line of the tokenized file, the
\* tokens of the line with their raw_token unchanged followed by exactly one
\* NEW_LINE; the raw tokens of the lexed file less its NEW_LINE tokens are
\* the tokens of the tokenized file in order; every token that is no
\* NEW_LINE has a NEW_LINE somewhere after it.
C12_LexedIsLinesWithSentinels ==
    JustLexed =>
        /\ Len(l_file) = EndOfLine(Len(t_file))
        /\ \A k \in 1..Len(t_file) :
               /\ l_file[EndOfLine(k)].lex = "NEW_LINE"
               /\ \A j \in 1..Len(t_file[k]) :
                      /\ l_file[EndOfLine(k - 1) + j].raw_token = t_file[k][j]
                      /\ l_file[EndOfLine(k - 1) + j].lex # "NEW_LINE"
        /\ [i \in 1..Cardinality(RawTokensAt) |->
               Pick(l_file, RawTokensAt)[i].raw_token]
               = Concat(t_file, 1, Len(t_file))
        /\ \A i \in RawTokensAt :
               \E j \in (i + 1)..Len(l_file) : l_file[j].lex = "NEW_LINE"

\* a file of two lines has been lexed
C12_Witness ==
    /\ JustLexed
    /\ t_file = <<<<"t1">>, <<"@">>>>
    /\ Len(l_file) = 4

-----------------------------------------------------------------------------
(* The tokenized file against the file.                                    *)

\* the words of a file that are tokens and the first token of their line
FirstTokens(words) ==
    {i \in 1..Len(words) :
        /\ words[i] \notin {" ", "\n"}
        /\ \A j \in 1..(i - 1) :
               words[j] \notin {" ", "\n"}
                   => \E n \in (j + 1)..(i - 1) : words[n] = "\n"}

\* tokenize_file has returned
Tokenized == doc.opens /\ pc # "tokenize"

\* C13: every line of the tokenized file holds at least one token, and the
\* tokenized file has one line for each line of the file that has a token:
\* a line that is empty or made of white space only leaves nothing.
C13_BlankLinesAreDropped ==
    Tokenized =>
        /\ \A k \in 1..Len(t_file) : Len(t_file[k]) >= 1
        /\ Len(t_file) = Cardinality(FirstTokens(doc.file))

\* the same for the files in which no white space stands alone
EmptyLinesAreDropped ==
    (Tokenized /\ \A i \in 1..Len(doc.file) : doc.file[i] # " ")
        => /\ \A k \in 1..Len(t_file) : Len(t_file[k]) >= 1
           /\ Len(t_file) = Cardinality(FirstTokens(doc.file))

\* an empty line before a line with a token has been dropped
EmptyLineDropped ==
    /\ Tokenized
    /\ doc.file = <<"\n", "t1", "\n">>
    /\ t_file = <<<<"t1">>>>

-----------------------------------------------------------------------------
(* Well-formed experiment files and the end of the parse.                  *)

\* the word at i is a // or stands between a // and the end of its line
Commented(words, i) ==
    \E j \in 1..i :
        /\ words[j] = "//"
        /\ \A n \in j..i : words[n] # "\n"

Openers(words) ==
    {i \in 1..Len(words) : words[i] \in {"begin", "def"} /\ ~Commented(words, i)}

Closers(words) ==
    {i \in 1..Len(words) : words[i] = "end" /\ ~Commented(words, i)}

\* each begin and each def has its own end: the file opens with begin,
\* every end closes something, and the last end closes the first begin
Balanced(words) ==
    LET opens  == Openers(words)
        closes == Closers(words)
        \* the number of begin and def before or at i that are still open
        OpenAt(i) == Cardinality({j \in opens : j <= i})
                         - Cardinality({j \in closes : j <= i})
        last == CHOOSE i \in closes : \A j \in closes : j <= i
    IN  /\ opens # {}
        /\ closes # {}
        /\ Cardinality(opens) = Cardinality(closes)
        /\ \A i \in closes : OpenAt(i) >= 0 /\ (OpenAt(i) = 0 => i = last)
        /\ \A i \in 1..Len(words) :
               (\A j \in opens : i < j) \/ i > last
                   => Commented(words, i) \/ words[i] \in {" ", "\n"}

\* the word at i is the first of its line and the word at i + n the last
AloneOnLine(words, i, n) ==
    /\ i = 1 \/ words[i - 1] = "\n"
    /\ i + n + 1 <= Len(words)
    /\ words[i + n + 1] = "\n"

Labels == {"t1", "t2", "b1", "s1", "e1", "x"}

\* begin <region> <type> alone on its line, the first one begin filetype run
BeginHeadersAlone(words) ==
    \A i \in Openers(words) :
        words[i] = "begin" =>
            /\ AloneOnLine(words, i, 2)
            /\ words[i + 1] \in {"filetype", "section"}
            /\ words[i + 2] \in {"run", "mf_input", "activity", "trial_spec",
                                 "trial_def"}
            /\ (words[i + 1] = "filetype") = (\A j \in Openers(words) : i <= j)
            /\ (words[i + 2] = "run") = (words[i + 1] = "filetype")

\* def <kind> <label> alone on its line, inside a trial_def section
DefHeadersLabelled(words) ==
    \A i \in Openers(words) :
        words[i] = "def" =>
            /\ AloneOnLine(words, i, 2)
            /\ words[i + 1] \in {"trial", "block", "session", "experiment"}
            /\ words[i + 2] \in Labels

\* the same, but def experiment may stand without a label, as it does in
\* the grammar of the documents
DefHeadersAlone(words) ==
    \A i \in Openers(words) :
        words[i] = "def" =>
            \/ /\ AloneOnLine(words, i, 2)
               /\ words[i + 1] \in {"trial", "block", "session", "experiment"}
               /\ words[i + 2] \in Labels
            \/ /\ AloneOnLine(words, i, 1)
               /\ words[i + 1] = "experiment"

\* the bodies of block, session and experiment definitions hold only
\* identifiers, counts and comments
PairBodies(words) ==
    \A i \in Openers(words) :
        (words[i] = "def" /\ words[i + 1] \in {"block", "session", "experiment"})
            => LET close == CHOOSE j \in Closers(words) :
                                j > i /\ \A n \in Closers(words) : n > i => j <= n
               IN  \A j \in (i + 3)..(close - 1) :
                       \/ Commented(words, j)
                       \/ words[j] \in {"\n", " "}
                       \/ LexemeOf(words[j]) \in {"VAR_IDENTIFIER", "VAR_VALUE"}

\* the begin or def that is open around the one at i, 0 for the first begin
Enclosing(words, i) ==
    LET around == {j \in Openers(words) :
                     /\ j < i
                     /\ Cardinality({k \in Openers(words) : j < k /\ k < i})
                          = Cardinality({k \in Closers(words) : j < k /\ k < i})}
    IN  IF around = {} THEN 0
        ELSE CHOOSE j \in around : \A k \in around : k <= j

\* regions nest as parse_region dispatches them: a def stands directly in a
\* trial_def region, and a begin directly in a region that is neither a
\* variable section nor a trial_def region
NestedAsDispatched(words) ==
    \A i \in Openers(words) :
        LET around == Enclosing(words, i)
        IN  around # 0 =>
               /\ words[around] = "begin"
               /\ words[i] = "def" => words[around + 2] = "trial_def"
               /\ words[i] = "begin" =>
                      words[around + 2] \notin VarSectionTypes("expt") \cup {"trial_def"}

WellFormed(words) ==
    /\ Balanced(words)
    /\ BeginHeadersAlone(words)
    /\ DefHeadersLabelled(words)
    /\ PairBodies(words)
    /\ NestedAsDispatched(words)

WellFormedAsInGrammar(words) ==
    /\ Balanced(words)
    /\ BeginHeadersAlone(words)
    /\ DefHeadersAlone(words)
    /\ PairBodies(words)
    /\ NestedAsDispatched(words)

\* the begin and def tokens of the lexed file still open at token i
OpenTokensAt(i) ==
    Cardinality({j \in 1..i : /\ l_file[j].lex \in {"BEGIN_MARKER", "DEF"}
                              /\ ~InComment(l_file, j)})
        - Cardinality({j \in 1..i : /\ l_file[j].lex = "END_MARKER"
                                    /\ ~InComment(l_file, j)})

\* the cursor is on the END_MARKER that closes the first begin
OnMatchingEnd ==
    /\ ltp \in 1..Len(l_file)
    /\ l_file[ltp].lex = "END_MARKER"
    /\ ~InComment(l_file, ltp)
    /\ OpenTokensAt(ltp) = 0

\* parse_lexed_expt_file has returned
ExptParsed ==
    /\ doc.parser = "expt"
    /\ pc \in {"parsed", "allocate_trials_data", "initialize_trial_names",
               "initialize_trials_data", "returned", "threw", "crashed"}

\* the ends of a run other than a return or an exception: a fatal error,
\* a read outside the token vector, an insertion without end, a write
\* outside the arrays
BadEnds == {"exit_1", "exit_2", "exit_3", "exit_4", "undefined", "capped", "crashed"}

\* the run never ends badly, the parser reaches its return from wherever it
\* is within a number of steps linear in the tokens, and from its return on
\* the cursor is on the END_MARKER that closes the first begin
EndsOnMatchingEnd ==
    /\ pc \notin BadEnds
    /\ pc = "lex" => ParseResult(doc.parser, Lexed).pc = "parsed"
    /\ pc = "parsing" => RunParser(Cfg, 4 * Len(l_file) + 8).pc = "parsed"
    /\ ExptParsed => OnMatchingEnd

-----------------------------------------------------------------------------
(* The token vector during the parse.                                      *)

\* C15: after parse_lexed_expt_file has returned the lexed file is the
\* sequence of tokens that lex_tokenized_file produced: the same length,
\* the same tokens in the same order.
C15_TokensAreNotMutated == ExptParsed => l_file = Lexed

\* the same for the files whose definitions have no identifier without a
\* count; in the others, those of DefDocs and CommentDocs, tokens are only
\* ever added
TokensAreMutatedByDefaultsOnly ==
    ExptParsed =>
        IF doc.family \in {"def", "comment"}
        THEN Len(l_file) >= Len(Lexed)
        ELSE l_file = Lexed

\* def block b1 with the body t1 t2 has been parsed: there is one token
\* more than the lexer produced, the VAR_VALUE 1 between t1 and t2
TokensAdded ==
    /\ ExptParsed
    /\ doc.file = DefBodyWords("block", <<"t1", "t2">>)
    /\ Len(l_file) = Len(Lexed) + 1
    /\ l_file[DefBodyStart + 1] = Token("VAR_VALUE", "1")
    /\ Lexed[DefBodyStart + 1] = Token("VAR_IDENTIFIER", "t2")

-----------------------------------------------------------------------------
(* The fatal errors and their exit codes.                                  *)

\* the fatal condition a file meets, "" when it meets none: the file does
\* not open; the first word outside comments is not begin; the word after
\* that begin is no region keyword; it is not filetype; the word after
\* filetype is not the type the parser expects
FatalCondition(d) ==
    LET words  == Pick(d.file, {i \in 1..Len(d.file) : d.file[i] # " "})
        tokens == {i \in 1..Len(words) :
                      words[i] # "\n" /\ ~Commented(words, i)}
        first  == CHOOSE i \in tokens : \A j \in tokens : i <= j
    IN  IF ~d.opens THEN "cannot_open"
        ELSE IF tokens = {} THEN ""
        ELSE IF words[first] # "begin" THEN "token_before_begin"
        ELSE IF first + 1 > Len(words)
                    \/ words[first + 1] \notin {"filetype", "section"}
        THEN "begin_without_region"
        ELSE IF words[first + 1] # "filetype" THEN "first_region_not_filetype"
        ELSE IF first + 2 > Len(words)
                    \/ words[first + 2] # ExpectedFiletype(d.parser)
        THEN "filetype_not_expected"
        ELSE ""

\* the end of the run of the tokenizer, the lexer and the parser on a file
EndOf(d) ==
    IF ~d.opens THEN "exit_3"
    ELSE ParseResult(d.parser, lex_tokenized_file(tokenize_file(d.file))).pc

\* one file for each fatal condition
FatalFiles ==
    {[parser |-> "expt", family |-> "missing", file |-> <<>>, opens |-> FALSE],
     [parser |-> "expt", family |-> "header", file |-> <<"x", "\n">>,
      opens |-> TRUE],
     [parser |-> "expt", family |-> "header", file |-> <<"begin", "x", "\n">>,
      opens |-> TRUE],
     [parser |-> "expt", family |-> "header",
      file |-> <<"begin", "section", "run", "\n">>, opens |-> TRUE],
     [parser |-> "expt", family |-> "header",
      file |-> <<"begin", "filetype", "build", "\n">>, opens |-> TRUE]}

\* the exit code and the fatal condition of each of them
FatalEnds == [d \in FatalFiles |-> <<EndOf(d), FatalCondition(d)>>]

ExitCodes == {"exit_1", "exit_2", "exit_3", "exit_4"}

\* C16: a run that ends in a fatal error ends with a code that no file
\* meeting another of the five fatal conditions ends with.
C16_ExitCodesDistinguish ==
    pc \in ExitCodes =>
        \A d \in FatalFiles :
            FatalEnds[d][1] = pc => FatalEnds[d][2] = FatalCondition(doc)

\* the code that each fatal condition ends with
CodeOf ==
    [cannot_open |-> "exit_3", token_before_begin |-> "exit_1",
     begin_without_region |-> "exit_4", first_region_not_filetype |-> "exit_2",
     filetype_not_expected |-> "exit_3"]

\* a file that meets a fatal condition is not parsed and ends with the code
\* of its condition, and only such a file ends with an exit code
FatalConditionsExit ==
    /\ pc \in ExitCodes => FatalCondition(doc) # ""
    /\ FatalCondition(doc) # ""
           => /\ e_file = EmptyFile
              /\ pc \in {"tokenize", "lex", "parsing", CodeOf[FatalCondition(doc)]}

\* a file that does not open and a file of the wrong filetype both ended
\* with 3
CannotOpenExit == pc = "exit_3" /\ ~doc.opens

FiletypeNotExpectedExit ==
    pc = "exit_3" /\ FatalCondition(doc) = "filetype_not_expected"

-----------------------------------------------------------------------------
(* translate_parsed_trials run a second time.                              *)

\* translate_parsed_trials as a function of the parsed trial section: the
\* trials_data it leaves, the trial section it leaves, whether it wrote
\* outside the name array, and the exception that ended it, "" when none
translate_parsed_trials(info) ==
    LET r      == calculate_num_trials(info)
        fresh  == allocate_trials_data(r.val)
        named  == initialize_trial_names_helper(
                      [names |-> fresh.trial_names, oob |-> FALSE, exc |-> ""],
                      info, info.experiment)
        filled == initialize_trials_data_loop(
                      [trial_map |-> info.trial_map,
                       td |-> [fresh EXCEPT !.trial_names = named.names],
                       exc |-> ""],
                      1, fresh.num_trials)
    IN  IF r.exc # ""
        THEN [td |-> allocate_trials_data(0), info |-> info, oob |-> FALSE,
              exc |-> r.exc]
        ELSE IF named.exc # "" \/ named.oob
        THEN [td |-> [fresh EXCEPT !.trial_names = named.names], info |-> info,
              oob |-> named.oob, exc |-> named.exc]
        ELSE [td |-> filled.td,
              info |-> [info EXCEPT !.trial_map = filled.trial_map],
              oob |-> FALSE, exc |-> filled.exc]

\* translate_parsed_trials has ended, by a return or by an exception, and
\* has met no undefined behaviour
Translated == pc \in {"returned", "threw"} /\ ub = ""

\* a second run on what the first one left yields the num_trials and the
\* name array of the first
SecondRunAgrees ==
    LET second == translate_parsed_trials(TrialInfo)
    IN  /\ second.td.num_trials = td.num_trials
        /\ second.td.trial_names = td.trial_names

\* C17: translate_parsed_trials leaves the trial, block and session maps
\* and the experiment list of the document it is given as they were, and
\* once it has ended a second run on the same document yields the same
\* num_trials and the same name array.
C17_TranslateIsRepeatable ==
    /\ ub = "" => TrialInfo = doc.pe_file.parsed_trial_info
    /\ Translated => SecondRunAgrees

\* the same, but for the maps after a run that ends with an exception
ReturningTranslateIsRepeatable ==
    /\ ub = "" /\ pc # "threw" => TrialInfo = doc.pe_file.parsed_trial_info
    /\ Translated => SecondRunAgrees

\* a run has ended with an exception and has left an entry more in the
\* fields of a trial
FieldInserted ==
    /\ pc = "threw"
    /\ ub = ""
    /\ \E t \in DOMAIN TrialInfo.trial_map :
           /\ t \in DOMAIN doc.pe_file.parsed_trial_info.trial_map
           /\ DOMAIN TrialInfo.trial_map[t]
                  # DOMAIN doc.pe_file.parsed_trial_info.trial_map[t]

\* a run of three trials or more has returned and a second run yields the
\* same
RepeatedRun ==
    /\ pc = "returned"
    /\ td.num_trials >= 3
    /\ \A i \in 1..td.num_trials : td.trial_names[i] # ""
    /\ translate_parsed_trials(TrialInfo).td = td


-----------------------------------------------------------------------------
(* C18: the count and the expansion agree.                                 *)

\* the state initialize_trial_names_helper leaves on a hierarchy whose labels
\* each have one definition (the three maps of the model hold no cycle)
NamesWritten ==
    /\ doc.family \in {"resolve", "signed"}
    /\ WellResolved(doc.pe_file.parsed_trial_info)
    /\ pc \in {"initialize_trials_data", "crashed"}

\* no slot of 0..num_trials-1 left empty and no write at num_trials or beyond
SlotsExactlyFilled ==
    /\ ub = ""
    /\ Len(td.trial_names) = td.num_trials
    /\ \A j \in 1..td.num_trials : td.trial_names[j] # ""

\* C18: for every acyclic hierarchy in which each referenced label is defined
\* in exactly one of the three maps, initialize_trial_names_helper writes as
\* many names as calculate_num_trials returned: after the expansion no slot
\* below num_trials is empty and no name was written at num_trials or beyond.
C18_CountAndExpansionAgree == NamesWritten => SlotsExactlyFilled

\* the same on the hierarchies whose counts carry no sign
UnsignedCountAndExpansionAgree ==
    (NamesWritten /\ doc.family = "resolve") => SlotsExactlyFilled

\* a count of -1 on a trial, summed with a count of 2: one slot allocated
\* and a write past it
SignedCountOverflows ==
    /\ NamesWritten
    /\ TrialInfo.experiment = <<Pair("t1", "-1"), Pair("t1", "2")>>
    /\ td.num_trials = 1
    /\ ub = "heap_overflow"


-----------------------------------------------------------------------------
(* C19: parse_def makes progress.                                          *)

\* the identifiers of the body of the definition of the files of DefDocs
\* and GapDocs
BodyIdentifiers ==
    {i \in DefBodyStart..(FirstEnd(Lexed, DefBodyStart) - 1) :
        Lexed[i].lex = "VAR_IDENTIFIER"}

\* the shadow tokens parse_def has inserted so far
ShadowTokens == Len(l_file) - Len(Lexed)

\* parse_def is past its first token, or has ended
InParseDef == pc \notin {"tokenize", "lex"} /\ ltp > DefBodyStart

\* C19: for every block, session or experiment body followed by an
\* END_MARKER, whatever tokens it holds (a keyword, a type name or a token
\* of no lexeme between two identifiers included), parse_def reaches the
\* END_MARKER after finitely many steps and inserts at most one synthetic
\* count token per identifier that lacks a value.
C19_ParseDefMakesProgress ==
    (doc.family = "gap" /\ InParseDef)
        => /\ pc # "capped"
           /\ ShadowTokens <= Cardinality(BodyIdentifiers)
           /\ ParseResult(doc.parser, Lexed).pc = "parsed"

\* no more than a shadow token per identifier in the bodies of identifiers,
\* values, comments and new lines
ParseDefMakesProgressOnPairs ==
    (doc.family = "def" /\ InParseDef)
        => /\ pc # "capped"
           /\ ShadowTokens <= Cardinality(BodyIdentifiers)

\* t1 int t1: a third shadow token for two identifiers
ShadowTokensPileUp ==
    /\ doc.family = "gap"
    /\ Len(t_file) >= 4
    /\ t_file[4] = <<"t1", "int", "t1">>
    /\ pc = "parsing"
    /\ ShadowTokens = 3


-----------------------------------------------------------------------------
(* C20: a trial definition stores only well-formed triples.                *)

\* the entries stored for the trial of the files of TrialDocs
TrialEntries == e_file.parsed_trial_info.trial_map["b1"]

TrialStored ==
    /\ doc.family = "trial"
    /\ DefClosed
    /\ "b1" \in DOMAIN e_file.parsed_trial_info.trial_map

\* the variable is a type name, the identifier directly after it, and the
\* value after that identifier, directly or at the start of the next line
FromTriple(v) ==
    \E i \in DefBodyStart..(Len(Lexed) - 2) :
        /\ Lexed[i] = Token("TYPE_NAME", v.type_name)
        /\ Lexed[i + 1] = Token("VAR_IDENTIFIER", v.identifier)
        /\ \/ Lexed[i + 2] = Token("VAR_VALUE", v.value)
           \/ /\ Lexed[i + 2].lex = "NEW_LINE"
              /\ i + 3 <= Len(Lexed)
              /\ Lexed[i + 3] = Token("VAR_VALUE", v.value)

OnlyTriplesStored ==
    \A key \in DOMAIN TrialEntries :
        /\ key # ""
        /\ TrialEntries[key].identifier = key
        /\ FromTriple(TrialEntries[key])

\* C20: for every trial definition body, each entry of trial_map[label] has
\* a non-empty key equal to its variable's identifier and comes from a
\* TYPE_NAME VAR_IDENTIFIER VAR_VALUE sequence whose identifier directly
\* follows the type name; an identifier without a type name before it, or a
\* value that does not follow its own identifier, adds no entry.
C20_TrialStoresOnlyTriples == TrialStored => OnlyTriplesStored

\* the body is made of triples only, each on one line
TriplesOnly ==
    \A i \in DefBodyStart..(FirstEnd(Lexed, DefBodyStart) - 1) :
        /\ Lexed[i].lex \in {"TYPE_NAME", "VAR_IDENTIFIER", "VAR_VALUE", "NEW_LINE"}
        /\ Lexed[i].lex = "TYPE_NAME"
              => Lexed[i + 1].lex = "VAR_IDENTIFIER" /\ Lexed[i + 2].lex = "VAR_VALUE"
        /\ Lexed[i].lex = "VAR_IDENTIFIER" => Lexed[i - 1].lex = "TYPE_NAME"
        /\ Lexed[i].lex = "VAR_VALUE" => Lexed[i - 1].lex = "VAR_IDENTIFIER"

TripleBodiesStoreOnlyTriples ==
    (TrialStored /\ TriplesOnly)
        => /\ OnlyTriplesStored
           /\ DOMAIN TrialEntries
                = {Lexed[i].raw_token :
                     i \in {j \in DefBodyStart..(FirstEnd(Lexed, DefBodyStart) - 1) :
                               Lexed[j].lex = "VAR_IDENTIFIER"}}

\* x 1: an identifier without a type name, and its value stored under ""
EmptyKeyStored ==
    /\ TrialStored
    /\ t_file[4] = <<"x", "1">>
    /\ TrialEntries = ("" :> Var("", "", "1"))

\* int c 1: a triple stored
TripleStored ==
    /\ TrialStored
    /\ TriplesOnly
    /\ TrialEntries = ("c" :> Var("int", "c", "1"))


-----------------------------------------------------------------------------
(* C21: the cursor stays inside the token sequence.                        *)

\* C21: for every lexed file, an empty file, a file with no begin, a header
\* on the last line and a region or definition with no closing end
\* included, every token the parser reads through ltp, next_lt or
\* second_next_lt lies inside l_file.tokens.
C21_CursorStaysInside == pc # "undefined" /\ ub # "oob_read"

\* the same for the files in which each begin and each def has its end
CursorStaysInsideWellFormed ==
    (doc.opens /\ Balanced(doc.file) /\ BeginHeadersAlone(doc.file)
        /\ DefHeadersLabelled(doc.file))
        => pc # "undefined" /\ ub # "oob_read"

\* the empty file: the scan for the first begin reads tokens.end()
EmptyFileReadOutside ==
    /\ doc.file = <<>>
    /\ l_file = <<>>
    /\ pc = "undefined"
    /\ ltp = 1

\* the filetype header on the last line: ltp += 4 steps over the end
LastLineHeaderReadOutside ==
    /\ doc.file = <<"begin", "filetype", ExpectedFiletype(doc.parser)>>
    /\ pc = "undefined"
    /\ ltp = Len(l_file) + 1

\* the read outside happened in fn, at the end of a file that stops early
ReadOutsideIn(fn) ==
    /\ doc.family = "truncated"
    /\ pc = "undefined"
    /\ stack[Len(stack)].fn = fn
    /\ ltp = Len(l_file) + 1

\* a definition with no closing end
OpenDefReadOutside == ReadOutsideIn("parse_def")

\* a variable section with no closing end
OpenVarSectionReadOutside == ReadOutsideIn("parse_var_section")

\* a trial_def region with no closing end
OpenTrialSectionReadOutside == ReadOutsideIn("parse_trial_section")


-----------------------------------------------------------------------------
(* C22: regions are dispatched by their type.                              *)

\* the parser is at work or has stopped; translate_parsed_trials has not
\* touched the parsed file
BeforeTranslate == pc \notin {"returned", "threw"}

\* the lexed file holds begin <region> region_type
HasRegion(region_type) ==
    \E i \in 1..(Len(Lexed) - 2) :
        /\ Lexed[i].lex = "BEGIN_MARKER"
        /\ Lexed[i + 1].lex = "REGION"
        /\ Lexed[i + 2] = Token("REGION_TYPE", region_type)

\* the lexed file holds def def_type label after a begin <region> trial_def
HasDefInTrialDef(def_type, label) ==
    \E i \in 1..(Len(Lexed) - 2) :
        /\ Lexed[i].lex = "BEGIN_MARKER"
        /\ Lexed[i + 1].lex = "REGION"
        /\ Lexed[i + 2] = Token("REGION_TYPE", "trial_def")
        /\ \E j \in (i + 3)..(Len(Lexed) - 2) :
               /\ Lexed[j].lex = "DEF"
               /\ Lexed[j + 1] = Token("DEF_TYPE", def_type)
               /\ Lexed[j + 2] = Token("VAR_IDENTIFIER", label)

\* the keys under which each parser may store a variable section
SectionKeys ==
    IF doc.parser = "expt" THEN {"mf_input", "activity", "trial_spec"}
    ELSE {"connectivity", "activity"}

\* C22: in an experiment file a variable section is stored only under
\* mf_input, activity and trial_spec, and hierarchy entries come only from
\* def blocks inside a trial_def region; in a build file a variable section
\* is stored only under connectivity and activity and no hierarchy entry is
\* made; a region of any other type stores nothing itself.
C22_RegionDispatchByType ==
    (doc.opens /\ BeforeTranslate) =>
        LET info == e_file.parsed_trial_info
        IN  /\ \A key \in DOMAIN e_file.parsed_var_sections :
                   key \in SectionKeys /\ HasRegion(key)
            /\ \A label \in DOMAIN info.trial_map :
                   doc.parser = "expt" /\ HasDefInTrialDef("trial", label)
            /\ \A label \in DOMAIN info.block_map :
                   doc.parser = "expt" /\ HasDefInTrialDef("block", label)
            /\ \A label \in DOMAIN info.session_map :
                   doc.parser = "expt" /\ HasDefInTrialDef("session", label)
            /\ info.experiment # <<>> =>
                   doc.parser = "expt"
                   /\ \E label \in Labels : HasDefInTrialDef("experiment", label)

\* an experiment file whose connectivity region holds a nested mf_input
\* region: only the nested region is stored
C22_Witness ==
    /\ doc.family = "dispatch"
    /\ doc.file = DispatchWords("expt", "connectivity", "mf_input",
                                <<"int", "rate", "40", "\n">>)
    /\ pc = "parsed"
    /\ DOMAIN e_file.parsed_var_sections = {"mf_input"}
    /\ e_file.parsed_var_sections["mf_input"].param_map
           = ("rate" :> Var("int", "rate", "40"))

\* a build file with a trial_def region and a block definition in it:
\* parsed, and nothing stored
BuildFileStoresNoDefinition ==
    /\ doc.file = DispatchWords("build", "trial_def", "",
                                <<"def", "block", "b1", "\n", "t1", "2", "\n",
                                  "end", "\n">>)
    /\ pc = "parsed"
    /\ e_file = EmptyFile

\* a block defined in the trial_def region of an experiment file
BlockStoredFromTrialDef ==
    /\ doc.family = "dispatch"
    /\ doc.parser = "expt"
    /\ pc = "parsed"
    /\ DOMAIN e_file.parsed_trial_info.block_map = {"b1"}
    /\ e_file.parsed_trial_info.block_map["b1"] = <<Pair("t1", "2")>>

=============================================================================
